---- MODULE Spec2Model ----
(***************************************************************************)
(* A model of kelindar/goap: the rule lexicon (parseRule, expr, rule), the  *)
(* State container (store, Add, Del, Match, Apply, Distance, Clone) and the *)
(* A* planner (Plan, graph heap, reconstructPlan).                          *)
(*                                                                          *)
(* Conventions.                                                             *)
(*  - A Go string is a sequence of one-character strings.                   *)
(*  - A float32 is the integer of its IEEE-754 bit pattern, negated for a   *)
(*    negative number, so that the order of the integers is the order of    *)
(*    the numbers; sums, differences, quotients and the product by 100      *)
(*    round to nearest even as the hardware does.  The value field of an    *)
(*    expr is an integer number of hundredths.                              *)
(*  - A fact is the low 32 bits of the xxh3 hash of the lowercased key,     *)
(*    kept as the pair of its 16-bit halves <<high, low>>; the hash is      *)
(*    computed on 64-bit words held as sequences of eight bytes.            *)
(*  - A state hash is an element of the XOR group generated by the entry    *)
(*    hashes: a set of entries, XOR being the symmetric difference.  Every  *)
(*    concrete 32-bit mix is a homomorphic image of it; it has no           *)
(*    collisions between states with different entries.                     *)
(*  - Slices are 0-based in the code and 1-based here: index i of the code  *)
(*    is vx[i + 1].                                                         *)
(*                                                                          *)
(* Specifications.                                                          *)
(*  - StateSpec: the State operations on States over the keys a, b, c;      *)
(*    at most MaxSwaps calls of Swap, each followed by at most              *)
(*    MaxAfterSwap other calls.                                             *)
(*  - BuildSpec: StateOf on lists of rules with distinct facts.             *)
(*  - WideSpec: the State operations on States of up to nine entries.       *)
(*  - CloneSpec: the State operations on a State object and its clone, with *)
(*    slice headers and backing arrays.                                     *)
(*  - ParseSpec: Add and Del on rule strings of TestParse's kind.           *)
(*  - PlanSpec: a call of Plan, step by step, on a store of State objects   *)
(*    that holds the caller's States and those Plan acquires.               *)
(*  - PoolSpec: calls of Plan from several goroutines on the same           *)
(*    arguments, interleaved step by step, with the pool of State objects   *)
(*    they share; pool.Get, Apply and pool.Put are steps of their own.      *)
(***************************************************************************)
EXTENDS Integers, Sequences, FiniteSets, Bags, TLC

VARIABLES
    st,        \* the State under test: [hx, vx]
    last,      \* the last State operation: its name, inputs and outputs
    mem,       \* the State objects of a clone pair and their backing arrays
    swaps,     \* the calls of State.Swap made so far
    after,     \* the calls made on the State since the first Swap
    problem,   \* the arguments of Plan: [start, goal, actions]
    nodes,     \* every State of the run, with its planner node: the
               \* caller's (start, goal, require and outcome of each
               \* action), then those Plan acquired
    heap,      \* graph.heap: node ids
    visit,     \* graph.visit: the pairs <<hash, node id>> of the map
    pc,        \* where Plan is: "idle", "start", "loop", "expand", "return",
               \* "done"; a concurrent call has "apply" and "release" too
    cur,       \* the node popped last (current)
    ai,        \* the index of the next action to expand
    result,    \* how Plan ended: "plan", "noplan", "error", "panic"
    plan,      \* the returned action indexes
    err,       \* the error Plan returns, "" for nil
    steps,     \* the steps the run of Plan has taken
    pool,      \* the sync.Pool of States: the bag of the ids Put and not Got
    runs       \* the concurrent calls of Plan, each with its own heap, visit,
               \* pc, cur, ai, result, plan and err, the State it acquired
               \* last (fresh) and the States its Release has released (freed)

vars ==
    <<st, last, mem, swaps, after, problem, nodes, heap, visit, pc, cur, ai, result, plan,
      err, steps, pool, runs>>

stateVars == <<st, last, mem, swaps, after>>
poolVars == <<pool, runs>>
planVars ==
    <<problem, nodes, heap, visit, pc, cur, ai, result, plan, err, steps,
      pool, runs>>

\* ------------------------------------------------------------ bounds

\* The calls of State.Swap in a behaviour.
MaxSwaps == 1

\* The calls that follow a call of Swap.
MaxAfterSwap == 1

\* The longest rule list given to StateOf for a pattern or an effects state.
MaxRules == 2

\* The longest action list given to Plan.
MaxActions == 3

\* The longest list of rules with distinct facts given to StateOf.
MaxFacts == 3

\* ------------------------------------------------------------ helpers

Min(a, b) == IF a < b THEN a ELSE b

Max(a, b) == IF a > b THEN a ELSE b

Range(f) == {f[i] : i \in DOMAIN f}

\* a XOR b in the group of state hashes.
Xor(a, b) == (a \ b) \cup (b \ a)

\* ------------------------------------------------------------ fact

LowerCase ==
    <<"a", "b", "c", "d", "e", "f", "g", "h", "i", "j", "k", "l", "m",
      "n", "o", "p", "q", "r", "s", "t", "u", "v", "w", "x", "y", "z">>

UpperCase ==
    <<"A", "B", "C", "D", "E", "F", "G", "H", "I", "J", "K", "L", "M",
      "N", "O", "P", "Q", "R", "S", "T", "U", "V", "W", "X", "Y", "Z">>

\* The characters of a key: [a-zA-Z_].
Letters == Range(LowerCase) \cup Range(UpperCase) \cup {"_"}

IndexOf(seq, c) == CHOOSE i \in DOMAIN seq : seq[i] = c

ToLowerChar(c) ==
    IF c \in Range(UpperCase) THEN LowerCase[IndexOf(UpperCase, c)] ELSE c

\* strings.ToLower on ASCII strings.
ToLower(s) == [i \in DOMAIN s |-> ToLowerChar(s[i])]

\* A uint32 is the pair of its high and its low 16 bits; their order is
\* the order of the pairs.
U32Less(a, b) == a[1] < b[1] \/ (a[1] = b[1] /\ a[2] < b[2])

U32Leq(a, b) == a = b \/ U32Less(a, b)

\* ------------------------------------------------------------ xxh3

\* A 64-bit word is the sequence of its eight bytes, the lowest first.
BitOf(w, i) == (w[i \div 8 + 1] \div 2^(i % 8)) % 2

ByteAt(b, o) ==
    b[o] + 2 * b[o + 1] + 4 * b[o + 2] + 8 * b[o + 3] + 16 * b[o + 4]
        + 32 * b[o + 5] + 64 * b[o + 6] + 128 * b[o + 7]

\* The bytes k, k + 1, ... 8 of the word whose bits are b[0], ... b[63].
RECURSIVE BytesFrom(_, _)
BytesFrom(b, k) ==
    IF k > 8 THEN <<>>
    ELSE <<ByteAt(b, 8 * (k - 1))>> \o BytesFrom(b, k + 1)

OfBits(b) == BytesFrom(b, 1)

\* The word of a number below 2^31.
OfInt(n) ==
    <<n % 256, (n \div 256) % 256, (n \div 65536) % 256, n \div 16777216,
      0, 0, 0, 0>>

Xor64(x, y) == OfBits([i \in 0..63 |-> (BitOf(x, i) + BitOf(y, i)) % 2])

Shr64(x, n) == OfBits([i \in 0..63 |-> IF i + n <= 63 THEN BitOf(x, i + n) ELSE 0])

Rotl64(x, n) == OfBits([i \in 0..63 |-> BitOf(x, (i + 64 - n) % 64)])

Bswap64(x) == <<x[8], x[7], x[6], x[5], x[4], x[3], x[2], x[1]>>

RECURSIVE AddFrom(_, _, _, _)
AddFrom(x, y, k, carry) ==
    IF k > 8 THEN <<>>
    ELSE LET sum == x[k] + y[k] + carry
         IN  <<sum % 256>> \o AddFrom(x, y, k + 1, sum \div 256)

\* x + y modulo 2^64.
Add64(x, y) == AddFrom(x, y, 1, 0)

\* The sum of the byte products x[i] * y[j] with i + j = k + 1.
RECURSIVE Column(_, _, _, _)
Column(x, y, k, i) ==
    IF i > 8 THEN 0
    ELSE (IF k + 1 - i \in 1..8 THEN x[i] * y[k + 1 - i] ELSE 0)
            + Column(x, y, k, i + 1)

RECURSIVE MulFrom(_, _, _, _, _)
MulFrom(x, y, k, carry, n) ==
    IF k > n THEN <<>>
    ELSE LET sum == Column(x, y, k, 1) + carry
         IN  <<sum % 256>> \o MulFrom(x, y, k + 1, sum \div 256, n)

\* x * y modulo 2^64.
Mul64(x, y) == MulFrom(x, y, 1, 0, 8)

\* The low word of the 128-bit product x * y XOR its high word.
Mul128Fold64(x, y) ==
    LET product == MulFrom(x, y, 1, 0, 16)
    IN  Xor64(SubSeq(product, 1, 8), SubSeq(product, 9, 16))

\* xxh3's default secret.
kSecret ==
    <<
     184, 254, 108, 57, 35, 164, 75, 190, 124, 1, 129, 44, 247, 33, 173, 28,
     222, 212, 109, 233, 131, 144, 151, 219, 114, 64, 164, 164, 183, 179, 103, 31,
     203, 121, 230, 78, 204, 192, 229, 120, 130, 90, 208, 125, 204, 255, 114, 33,
     184, 8, 70, 116, 247, 67, 36, 142, 224, 53, 144, 230, 129, 58, 38, 76,
     60, 40, 82, 187, 145, 195, 0, 203, 136, 208, 101, 139, 27, 83, 46, 163,
     113, 100, 72, 151, 162, 13, 249, 78, 56, 25, 239, 70, 169, 222, 172, 216,
     168, 250, 118, 63, 227, 156, 52, 63, 249, 220, 187, 199, 199, 11, 79, 29,
     138, 81, 224, 75, 205, 180, 89, 49, 200, 159, 126, 201, 217, 120, 115, 100,
     234, 197, 172, 131, 52, 211, 235, 195, 197, 129, 160, 255, 250, 19, 99, 235,
     23, 13, 221, 81, 183, 240, 218, 73, 211, 22, 85, 38, 41, 212, 104, 158,
     43, 22, 190, 88, 125, 71, 161, 252, 143, 248, 184, 209, 122, 208, 49, 206,
     69, 203, 58, 143, 149, 22, 4, 40, 175, 215, 251, 202, 187, 75, 64, 126
    >>

prime64x1 == <<135, 202, 235, 133, 177, 121, 55, 158>>
prime64x2 == <<79, 235, 212, 39, 61, 174, 178, 194>>
primeAvalanche64 == <<249, 121, 55, 158, 177, 103, 86, 22>>
primeAvalanche3 == <<249, 121, 55, 158, 145, 103, 86, 22>>
primeMx2 == <<37, 223, 152, 30, 101, 28, 178, 159>>
prime64x4 == <<99, 174, 178, 194, 119, 202, 235, 133>>
prime64x5 == <<197, 103, 86, 22, 47, 235, 212, 39>>
prime32x1 == <<177, 121, 55, 158, 0, 0, 0, 0>>
prime32x2 == <<119, 202, 235, 133, 0, 0, 0, 0>>
prime32x3 == <<61, 174, 178, 194, 0, 0, 0, 0>>

\* The bytes of the secret and of the input from offset o (0-based) as a
\* little-endian word of 8 and of 4 bytes.
LE64(b, o) == SubSeq(b, o + 1, o + 8)

LE32(b, o) == SubSeq(b, o + 1, o + 4) \o <<0, 0, 0, 0>>

\* h ^ (h >> n).
XorShift(h, n) == Xor64(h, Shr64(h, n))

xxh64Avalanche(h) ==
    XorShift(
        Mul64(XorShift(Mul64(XorShift(h, 33), prime64x2), 29),
              primeAvalanche64),
        32)

xxh3Avalanche(h) == XorShift(Mul64(XorShift(h, 37), primeAvalanche3), 32)

\* h ^ rotl(h, 49) ^ rotl(h, 24).
XorRotations(h) == Xor64(h, Xor64(Rotl64(h, 49), Rotl64(h, 24)))

\* h ^ ((h >> 35) + len).
XorShiftLen(h, len) == Xor64(h, Add64(Shr64(h, 35), OfInt(len)))

rrmxmx(h, len) ==
    XorShift(
        Mul64(XorShiftLen(Mul64(XorRotations(h), primeMx2), len), primeMx2),
        28)

mix16B(b, o, so) ==
    Mul128Fold64(Xor64(LE64(b, o), LE64(kSecret, so)),
                 Xor64(LE64(b, o + 8), LE64(kSecret, so + 8)))

\* The ASCII code of a key character.
Ascii(c) ==
    IF c \in Range(LowerCase) THEN 96 + IndexOf(LowerCase, c)
    ELSE IF c \in Range(UpperCase) THEN 64 + IndexOf(UpperCase, c)
    ELSE 95

\* The input of the avalanche for 0 to 3 bytes.
hashSmall(b, n) ==
    IF n = 0 THEN Xor64(LE64(kSecret, 56), LE64(kSecret, 64))
    ELSE Xor64(<<b[n], n, b[1], b[n \div 2 + 1], 0, 0, 0, 0>>,
               Xor64(LE32(kSecret, 0), LE32(kSecret, 4)))

\* The input of the avalanche for 9 to 16 bytes, from the two keyed words.
hashMed(n, lo, hi) ==
    Add64(Add64(OfInt(n), Bswap64(lo)), Add64(hi, Mul128Fold64(lo, hi)))

\* The rounds of 17 to 128 bytes, as pairs <<input offset, secret offset>>
\* of the 16-byte blocks mixed: the pair of blocks i from the front and
\* from the back is taken when the length is above 32 * i.
LargeRounds(n) ==
    [k \in 1..(2 * Min(4, (n - 1) \div 32 + 1)) |->
        IF k % 2 = 1 THEN <<16 * ((k - 1) \div 2), 32 * ((k - 1) \div 2)>>
        ELSE <<n - 16 * (k \div 2), 32 * ((k - 1) \div 2) + 16>>]

\* The rounds of 129 to 240 bytes: the first eight blocks with the secret
\* from its start, an avalanche (the pair <<-1, -1>>), the blocks from the
\* ninth on with the secret from offset 3, and the last 16 bytes.
MidRounds(n) ==
    [k \in 1..(n \div 16 + 2) |->
        IF k <= 8 THEN <<16 * (k - 1), 16 * (k - 1)>>
        ELSE IF k = 9 THEN <<-1, -1>>
        ELSE IF k <= n \div 16 + 1 THEN <<16 * (k - 2), 16 * (k - 10) + 3>>
        ELSE <<n - 16, 119>>]

\* The rounds of 17 to 240 bytes.
Rounds(n) == IF n <= 128 THEN LargeRounds(n) ELSE MidRounds(n)

\* One round on the sum acc.
mixRound(acc, b, round) ==
    IF round[1] < 0 THEN xxh3Avalanche(acc)
    ELSE Add64(acc, mix16B(b, round[1], round[2]))

\* The sum after the rounds k, k + 1, ... on the sum acc.
RECURSIVE mixRounds(_, _, _, _)
mixRounds(acc, b, rounds, k) ==
    IF k > Len(rounds) THEN acc
    ELSE CHOOSE sum \in {mixRounds(next, b, rounds, k + 1) :
                            next \in {mixRound(acc, b, rounds[k])}} : TRUE

\* The eight accumulators of an input of more than 240 bytes.
accInit ==
    <<prime32x3, prime64x1, prime64x2, primeAvalanche64, prime64x4,
      prime32x2, prime64x5, prime32x1>>

\* The product of the low and the high 32 bits of a word.
MulHalves(w) ==
    Mul64(<<w[1], w[2], w[3], w[4], 0, 0, 0, 0>>,
          <<w[5], w[6], w[7], w[8], 0, 0, 0, 0>>)

\* The lanes i, i + 1, ... 7 of the accumulators after the stripe of 64
\* bytes at offset o, keyed by the secret at offset so: a lane takes the
\* input word of its neighbour and the product of the halves of its own
\* keyed word.
RECURSIVE accumulate512(_, _, _, _, _)
accumulate512(acc, b, o, so, i) ==
    IF i > 7 THEN <<>>
    ELSE <<Add64(Add64(acc[i + 1],
                       LE64(b, o + 8 * (IF i % 2 = 0 THEN i + 1 ELSE i - 1))),
                 MulHalves(Xor64(LE64(b, o + 8 * i),
                                 LE64(kSecret, so + 8 * i))))>>
            \o accumulate512(acc, b, o, so, i + 1)

\* (acc ^ (acc >> 47) ^ secret) * prime32x1 on the lanes i, i + 1, ... 7,
\* the secret read from its last 64 bytes.
RECURSIVE scramble(_, _)
scramble(acc, i) ==
    IF i > 7 THEN <<>>
    ELSE <<Mul64(Xor64(XorShift(acc[i + 1], 47), LE64(kSecret, 128 + 8 * i)),
                 prime32x1)>>
            \o scramble(acc, i + 1)

\* The accumulators at the end of a stripe: scrambled when the stripe is
\* the last of a block.
endOfStripe(acc, ends) == IF ends THEN scramble(acc, 0) ELSE acc

\* The stripes of more than 240 bytes, as triples <<input offset, secret
\* offset, last of its block>>: the whole stripes of 64 bytes before the
\* last byte, sixteen to a block of 1024 bytes, and the last 64 bytes.
Stripes(n) ==
    [k \in 1..((n - 1) \div 64 + 1) |->
        IF k <= (n - 1) \div 64
        THEN <<64 * (k - 1), 8 * ((k - 1) % 16), (k - 1) % 16 = 15>>
        ELSE <<n - 64, 121, FALSE>>]

\* The accumulators after one stripe.
accumulateStripe(acc, b, stripe) ==
    endOfStripe(accumulate512(acc, b, stripe[1], stripe[2], 0), stripe[3])

\* The accumulators after the stripes lo, lo + 1, ... hi on the accumulators
\* acc, the second half of the stripes taken on the result of the first.
RECURSIVE accumulate(_, _, _, _, _)
accumulate(acc, b, stripes, lo, hi) ==
    IF lo = hi THEN accumulateStripe(acc, b, stripes[lo])
    ELSE CHOOSE accs \in {accumulate(half, b, stripes, (lo + hi) \div 2 + 1, hi) :
                half \in {accumulate(acc, b, stripes, lo, (lo + hi) \div 2)}} : TRUE

\* The sum of the folded pairs i, i + 1, ... 3 of the accumulators.
RECURSIVE mergeAccs(_, _)
mergeAccs(acc, i) ==
    IF i > 3 THEN OfInt(0)
    ELSE Add64(Mul128Fold64(
                   Xor64(acc[2 * i + 1], LE64(kSecret, 11 + 16 * i)),
                   Xor64(acc[2 * i + 2], LE64(kSecret, 19 + 16 * i))),
               mergeAccs(acc, i + 1))

\* The input of the avalanche for more than 16 bytes, from len * prime64x1:
\* the rounds of up to 240 bytes, the merged accumulators of more.
hashLarge(b, n, start) ==
    IF n <= 240
    THEN mixRounds(start, b, Rounds(n), 1)
    ELSE Add64(start,
               mergeAccs(accumulate(accInit, b, Stripes(n), 1, Len(Stripes(n))), 0))

\* The input of the avalanche for more than 8 bytes.
hashOver8(b, n) ==
    IF n <= 16
    THEN hashMed(n,
            Xor64(LE64(b, 0), Xor64(LE64(kSecret, 24), LE64(kSecret, 32))),
            Xor64(LE64(b, n - 8), Xor64(LE64(kSecret, 40), LE64(kSecret, 48))))
    ELSE hashLarge(b, n, Mul64(OfInt(n), prime64x1))

\* The hash of the bytes b, n of them.
hashBytes(b, n) ==
    IF n <= 3 THEN xxh64Avalanche(hashSmall(b, n))
    ELSE IF n <= 8
    THEN rrmxmx(Xor64(SubSeq(b, n - 3, n) \o SubSeq(b, 1, 4),
                      Xor64(LE64(kSecret, 8), LE64(kSecret, 16))), n)
    ELSE CHOOSE h \in {xxh3Avalanche(sum) : sum \in {hashOver8(b, n)}} : TRUE

\* xxh3.HashString(s) for a string of key characters: the 64-bit XXH3 hash
\* with the default secret and seed 0.
HashString(s) == hashBytes([i \in DOMAIN s |-> Ascii(s[i])], Len(s))

\* uint32(h): the low 32 bits of a word, as the pair of its high and low
\* 16-bit halves.
Low32(w) == <<w[4] * 256 + w[3], w[2] * 256 + w[1]>>

\* The keys of the specifications' inputs and of the repository's tests.
KnownKeys ==
    {<<>>, <<"a">>, <<"b">>, <<"c">>, <<"d">>, <<"e">>, <<"f">>, <<"g">>,
     <<"h">>, <<"i">>, <<"j">>, <<"k">>, <<"l">>, <<"m">>, <<"n">>,
     <<"h", "p">>, <<"a", "_">>, <<"a", "b", "c">>,
     <<"f", "o", "o", "d">>, <<"t", "i", "r", "e", "d">>,
     <<"h", "u", "n", "g", "e", "r">>,
     <<"a", "m", "m", "o", "_", "m", "a", "x">>}

\* The hashes of the known keys, computed once.
xxh3Known == [key \in KnownKeys |-> Low32(HashString(key))]

\* uint32(xxh3.HashString(s)): the low 32 bits of the 64-bit hash.
xxh3(s) == IF s \in KnownKeys THEN xxh3Known[s] ELSE Low32(HashString(s))

factOf(s) == xxh3(ToLower(s))

\* ------------------------------------------------------------ float32

\* A float32 is the number of its IEEE 754 bit pattern, taken negative for
\* a negative value: 0 is 0.0, 1065353216 is 1.0, 1120403456 is 100.0.  The
\* order of the finite values and the infinities is the order of the
\* numbers; the numbers above F32Inf are NaNs.
F32Inf == 2139095040

F32NaN == 2143289344

Two23 == 8388608

IsNaN(f) == f > F32Inf \/ f < -F32Inf

\* a < b on float32: false when either is a NaN.
F32Less(a, b) == \E x \in {a}, y \in {b} : ~IsNaN(x) /\ ~IsNaN(y) /\ x < y

\* The number of bits of n >= 0: 0 for 0.
BitLen(n) ==
    IF n = 0 THEN 0
    ELSE CHOOSE k \in 1..31 : 2^(k - 1) <= n /\ (k = 31 \/ n < 2^k)

\* The finite f >= 0 is Mant(f) * 2^Exp2(f).
Mant(f) == IF f < Two23 THEN f ELSE (f % Two23) + Two23

Exp2(f) == IF f < Two23 THEN -149 ELSE f \div Two23 - 150

\* m without its lowest shift bits, rounded to nearest with ties to even;
\* sticky says that the number had more below the bits of m.
RoundShift(m, shift, sticky) ==
    IF shift <= 0 THEN m * 2^(-shift)
    ELSE IF shift >= 32 THEN 0
    ELSE IF shift = 31
    THEN (IF m > 1073741824 \/ (m = 1073741824 /\ sticky) THEN 1 ELSE 0)
    ELSE LET kept == m \div 2^shift
             rest == m % 2^shift
             half == 2^(shift - 1)
         IN  IF rest > half \/ (rest = half /\ (sticky \/ kept % 2 = 1))
             THEN kept + 1
             ELSE kept

\* The bit pattern for the exponent exp of the lowest kept bit.
PackAt(m, e, sticky, exp) ==
    IF exp > 104 THEN F32Inf
    ELSE Min(F32Inf, (exp + 149) * Two23 + RoundShift(m, exp - e, sticky))

\* The float32 nearest to (m + r) * 2^e, ties to even, for 0 <= m < 2^31
\* and a rest 0 <= r < 1 that is 0 when sticky is FALSE: the bits of m
\* below the 24 the format keeps (fewer for a subnormal) are rounded away.
RoundPack(m, e, sticky) ==
    IF m = 0 THEN 0
    ELSE PackAt(m, e, sticky, Max(e + BitLen(m) - 24, -149))

\* m shifted right by n bits, the bits shifted out kept as a 1 in the
\* lowest bit.
ShiftRightJam(m, n) ==
    IF n = 0 THEN m
    ELSE IF n >= 31 THEN (IF m = 0 THEN 0 ELSE 1)
    ELSE LET k == m \div 2^n
         IN  IF m % 2^n # 0 /\ k % 2 = 0 THEN k + 1 ELSE k

\* a + b for finite a >= b >= 0.
AddMagnitudes(a, b) ==
    RoundPack(Mant(a) * 8 + ShiftRightJam(Mant(b) * 8, Exp2(a) - Exp2(b)),
              Exp2(a) - 3, FALSE)

\* a - b for finite a >= b >= 0.
SubMagnitudes(a, b) ==
    RoundPack(Mant(a) * 8 - ShiftRightJam(Mant(b) * 8, Exp2(a) - Exp2(b)),
              Exp2(a) - 3, FALSE)

Abs(n) == IF n < 0 THEN -n ELSE n

\* The float32 sum a + b of Go, rounded to nearest, ties to even.
F32Add(a, b) ==
    IF IsNaN(a) \/ IsNaN(b) THEN F32NaN
    ELSE IF Abs(a) = F32Inf /\ Abs(b) = F32Inf
    THEN (IF a = b THEN a ELSE F32NaN)
    ELSE IF Abs(a) = F32Inf THEN a
    ELSE IF Abs(b) = F32Inf THEN b
    ELSE LET big == IF Abs(a) >= Abs(b) THEN a ELSE b
             small == IF Abs(a) >= Abs(b) THEN b ELSE a
             sign == IF big < 0 THEN -1 ELSE 1
         IN  IF (big < 0) = (small < 0) \/ small = 0
             THEN sign * AddMagnitudes(Abs(big), Abs(small))
             ELSE sign * SubMagnitudes(Abs(big), Abs(small))

\* The float32 difference a - b of Go.
F32Sub(a, b) == F32Add(a, -b)

\* The float32 product f * 100 of Go.
F32Mul100(f) ==
    IF IsNaN(f) THEN F32NaN
    ELSE IF Abs(f) = F32Inf THEN f
    ELSE (IF f < 0 THEN -1 ELSE 1) * RoundPack(Mant(Abs(f)) * 100, Exp2(Abs(f)), FALSE)

\* The quotient of r * 2^n by d, after the bits q it already has, and
\* whether a rest is left, for 0 <= r < d < 2^30.
RECURSIVE DivideBits(_, _, _, _)
DivideBits(q, r, d, n) ==
    IF n = 0 THEN <<q, r # 0>>
    ELSE IF 2 * r >= d THEN DivideBits(2 * q + 1, 2 * r - d, d, n - 1)
    ELSE DivideBits(2 * q, 2 * r, d, n - 1)

\* The float32 of a quotient <<q, sticky>> scaled by 2^e.
PackQuotient(qr, e) == RoundPack(qr[1], e, qr[2])

\* n * 2^s / d from its whole part and the rest r, to 28 bits.
RatioFrom(whole, r, d, s) ==
    PackQuotient(DivideBits(whole, r, d, 28 - BitLen(whole)),
                 BitLen(whole) - 28 - s)

\* The float32 nearest to n / d for 0 <= n < 2^24 and 0 < d < 2^30: the
\* quotient float32(n) / float32(d) of Go for numbers n and d that are
\* float32 values.
F32Ratio(n, d) ==
    IF n = 0 THEN 0
    ELSE LET s == Max(0, BitLen(d) - BitLen(n) - 1)
         IN  RatioFrom((n * 2^s) \div d, (n * 2^s) % d, d, s)

\* uint32(f) of Go for a finite f >= 0 below 2^31: f without its
\* fraction.
F32ToUint32(f) ==
    IF Exp2(f) >= 0 THEN Mant(f) * 2^Exp2(f)
    ELSE IF Exp2(f) <= -31 THEN 0
    ELSE Mant(f) \div 2^(-Exp2(f))

\* float32(n) for 0 <= n < 2^31.
F32OfInt(n) == RoundPack(n, 0, FALSE)

\* ------------------------------------------------------------ expr

valueMin == 0

valueMax == 10000

opEqual == 0

opIncrement == 1

opDecrement == 2

opLess == 3

opGreater == 4

OpShift == 268435456

\* uint32(f) for a NaN f.  Go leaves the result of the conversion to the
\* implementation; the compilers for amd64 and arm64 give 0.
NaNAsUint32 == 0

\* uint32(value * 100) of exprOf, for a value that is not negative.
Hundredths(value) ==
    IF IsNaN(value) THEN NaNAsUint32 ELSE F32ToUint32(F32Mul100(value))

\* exprOf(op, value): the code clamps the float32 value to [0, 100] and
\* stores uint32(value * 100), the float32 product without its fraction,
\* under the operator's 4 bits.  A NaN passes both comparisons.
exprOf(op, value) ==
    LET v0 == IF F32Less(value, 0) THEN 0 ELSE value
        v1 == IF F32Less(F32OfInt(100), v0) THEN F32OfInt(100) ELSE v0
    IN  op * OpShift + Hundredths(v1)

Operator(e) == e \div OpShift

Value(e) == e % 65536

\* Percent: float32(Value) / 100, a float32 division.
Percent(e) ==
    IF Value(e) >= valueMax THEN F32OfInt(100) ELSE F32Ratio(Value(e), 100)

\* ------------------------------------------------------------ rule

\* The packed pair (fact << 32 | expr) as a pair; the zero rule is that of
\* fact 0 and expr 0.
ruleOf(f, e) == <<f, e>>

ZeroFact == <<0, 0>>

ZeroRule == <<ZeroFact, 0>>

Fact(r) == r[1]

Expr(r) == r[2]

\* rule.Hash: the entry's contribution to the state hash.
Hash(r) == {r}

\* ------------------------------------------------------------ strconv.ParseFloat

\* A natural number of any size is the sequence of its digits to the base
\* 2^15, the lowest first, without leading zero digits: <<>> is 0.
Limb == 32768

RECURSIVE MulAddFrom(_, _, _, _)
MulAddFrom(n, k, c, carry) ==
    IF k > Len(n) THEN (IF carry = 0 THEN <<>> ELSE <<carry>>)
    ELSE LET sum == n[k] * c + carry
         IN  <<sum % Limb>> \o MulAddFrom(n, k + 1, c, sum \div Limb)

\* n * c + a for 0 < c <= 15625 and 0 <= a < c.
BigMulAdd(n, c, a) == MulAddFrom(n, 1, c, a)

\* The number of the digits, the highest first, to the base 10 or 16.
RECURSIVE BigOfDigits(_, _)
BigOfDigits(digits, base) ==
    IF digits = <<>> THEN <<>>
    ELSE BigMulAdd(BigOfDigits(SubSeq(digits, 1, Len(digits) - 1), base),
                   base, digits[Len(digits)])

\* n * 5^k.
RECURSIVE BigMulPow5(_, _)
BigMulPow5(n, k) ==
    IF k = 0 THEN n
    ELSE IF k >= 6 THEN BigMulAdd(BigMulPow5(n, k - 6), 15625, 0)
    ELSE BigMulAdd(BigMulPow5(n, k - 1), 5, 0)

BigBitLen(n) ==
    IF n = <<>> THEN 0 ELSE 15 * (Len(n) - 1) + BitLen(n[Len(n)])

RECURSIVE Zeros(_)
Zeros(k) == IF k = 0 THEN <<>> ELSE <<0>> \o Zeros(k - 1)

\* n * 2^k.
BigShiftLeft(n, k) ==
    IF n = <<>> THEN <<>>
    ELSE Zeros(k \div 15) \o BigMulAdd(n, 2^(k % 15), 0)

\* a >= b.
BigGeq(a, b) ==
    \/ Len(a) > Len(b)
    \/ /\ Len(a) = Len(b)
       /\ \/ a = b
          \/ \E k \in DOMAIN a :
                /\ a[k] > b[k]
                /\ \A j \in (k + 1)..Len(a) : a[j] = b[j]

RECURSIVE SubFrom(_, _, _, _)
SubFrom(a, b, k, borrow) ==
    IF k > Len(a) THEN <<>>
    ELSE LET diff == a[k] - (IF k <= Len(b) THEN b[k] ELSE 0) - borrow
         IN  <<diff % Limb>> \o SubFrom(a, b, k + 1, IF diff < 0 THEN 1 ELSE 0)

RECURSIVE Trim(_)
Trim(n) ==
    IF n # <<>> /\ n[Len(n)] = 0 THEN Trim(SubSeq(n, 1, Len(n) - 1)) ELSE n

\* a - b for a >= b.
BigSub(a, b) == Trim(SubFrom(a, b, 1, 0))

\* The digit i of n, 0 above its highest.
LimbAt(n, i) == IF i <= Len(n) THEN n[i] ELSE 0

\* The bits of n from bit 15 * w + b up.
BigTopAt(n, shift, w, b) ==
    <<LimbAt(n, w + 1) \div 2^b + LimbAt(n, w + 2) * 2^(15 - b)
        + (IF LimbAt(n, w + 3) = 0 THEN 0 ELSE LimbAt(n, w + 3) * 2^(30 - b)),
      shift,
      LimbAt(n, w + 1) % 2^b # 0 \/ \E i \in 1..w : n[i] # 0>>

BigTopShift(n, shift) == BigTopAt(n, shift, shift \div 15, shift % 15)

\* The highest bits of n, 26 of them when n has as many: <<m, e, sticky>>
\* with n = m * 2^e and nothing more when sticky is FALSE, and
\* m * 2^e < n < (m + 1) * 2^e when it is TRUE.
BigTopBits(n) == BigTopShift(n, Max(0, BigBitLen(n) - 26))

\* The quotient of r * 2^k by d after the bits q it already has, and
\* whether a rest is left, for numbers r < d of any size.
RECURSIVE BigDivideBits(_, _, _, _)
BigDivideBits(q, r, d, k) ==
    IF k = 0 THEN <<q, r # <<>>>>
    ELSE LET twice == BigMulAdd(r, 2, 0)
         IN  IF BigGeq(twice, d)
             THEN BigDivideBits(2 * q + 1, BigSub(twice, d), d, k - 1)
             ELSE BigDivideBits(2 * q, twice, d, k - 1)

\* The float32 of the highest bits <<m, e, sticky>> scaled by 2^x.
PackTop(top, x) == RoundPack(top[1], top[2] + x, top[3])

\* The float32 nearest to n / d * 2^x; d times 2^gap has one bit more
\* than n.
DivideAligned(n, d, gap, x) ==
    PackQuotient(
        BigDivideBits(0,
                      IF gap > 0 THEN n ELSE BigShiftLeft(n, -gap),
                      IF gap > 0 THEN BigShiftLeft(d, gap) ELSE d,
                      28),
        gap - 28 + x)

DivideToF32(n, d, x) ==
    DivideAligned(n, d, BigBitLen(n) - BigBitLen(d) + 1, x)

\* The float32 nearest to n * 10^x for the number n of the decimal digits,
\* which do not start with a 0; F32Inf when it is out of the range of
\* float32.
DecimalToF32(digits, x) ==
    IF digits = <<>> THEN 0
    ELSE IF Len(digits) + x > 39 THEN F32Inf
    ELSE IF Len(digits) + x < -46 THEN 0
    ELSE IF x >= 0
    THEN PackTop(BigTopBits(BigMulPow5(BigOfDigits(digits, 10), x)), x)
    ELSE DivideToF32(BigOfDigits(digits, 10), BigMulPow5(<<1>>, -x), x)

\* The float32 nearest to n * 2^x for the number n of the hexadecimal
\* digits; F32Inf when it is out of the range of float32.
HexToF32(digits, x) ==
    IF digits = <<>> THEN 0
    ELSE PackTop(BigTopBits(BigOfDigits(digits, 16)), x)

DigitChars == <<"0", "1", "2", "3", "4", "5", "6", "7", "8", "9">>

HexLetters == <<"a", "b", "c", "d", "e", "f">>

IsDigit(c) == c \in Range(DigitChars)

IsHexLetter(c) == ToLowerChar(c) \in Range(HexLetters)

DigitVal(c) ==
    IF IsDigit(c) THEN IndexOf(DigitChars, c) - 1
    ELSE 9 + IndexOf(HexLetters, ToLowerChar(c))

RECURSIVE commonPrefixLenIgnoreCase(_, _)
commonPrefixLenIgnoreCase(s, prefix) ==
    IF s = <<>> \/ prefix = <<>> \/ ToLowerChar(s[1]) # prefix[1] THEN 0
    ELSE 1 + commonPrefixLenIgnoreCase(Tail(s), Tail(prefix))

NoSpecial == [ok |-> FALSE, val |-> 0, n |-> 0]

\* An infinity after nsign sign characters, found characters of
\* "infinity" following them.
specialInf(s, nsign, found) ==
    LET n == IF 3 < found /\ found < 8 THEN 3 ELSE found
    IN  IF n = 3 \/ n = 8
        THEN [ok |-> TRUE,
              val |-> IF s[1] = "-" THEN -F32Inf ELSE F32Inf,
              n |-> nsign + n]
        ELSE NoSpecial

\* strconv's special: "inf", "infinity" with an optional sign, and "nan",
\* in any case, at the start of s; n is the number of characters taken.
special(s) ==
    IF s = <<>> THEN NoSpecial
    ELSE IF s[1] \in {"+", "-"}
    THEN specialInf(s, 1, commonPrefixLenIgnoreCase(
                            Tail(s), <<"i", "n", "f", "i", "n", "i", "t", "y">>))
    ELSE IF ToLowerChar(s[1]) = "i"
    THEN specialInf(s, 0, commonPrefixLenIgnoreCase(
                            s, <<"i", "n", "f", "i", "n", "i", "t", "y">>))
    ELSE IF ToLowerChar(s[1]) = "n"
         /\ commonPrefixLenIgnoreCase(s, <<"n", "a", "n">>) = 3
    THEN [ok |-> TRUE, val |-> F32NaN, n |-> 3]
    ELSE NoSpecial

\* strconv's underscoreOK: an underscore stands between two digits or
\* between the base prefix and a digit.  saw is "^" at the start, "0"
\* after a digit, "_" after an underscore and "!" after anything else.
RECURSIVE underscoreOKFrom(_, _, _, _)
underscoreOKFrom(s, i, hex, saw) ==
    IF i > Len(s) THEN saw # "_"
    ELSE IF IsDigit(s[i]) \/ (hex /\ IsHexLetter(s[i]))
    THEN underscoreOKFrom(s, i + 1, hex, "0")
    ELSE IF s[i] = "_"
    THEN saw = "0" /\ underscoreOKFrom(s, i + 1, hex, "_")
    ELSE saw # "_" /\ underscoreOKFrom(s, i + 1, hex, "!")

underscoreOK(s) ==
    LET t == IF Len(s) >= 1 /\ s[1] \in {"+", "-"} THEN Tail(s) ELSE s
        prefix == Len(t) >= 2 /\ t[1] = "0" /\ ToLowerChar(t[2]) \in {"b", "o", "x"}
    IN  underscoreOKFrom(t, IF prefix THEN 3 ELSE 1,
                         prefix /\ ToLowerChar(t[2]) = "x",
                         IF prefix THEN "0" ELSE "^")

\* The mantissa loop of strconv's readFloat from position i (1-based):
\* the digits after the leading zeros, the position dp of the point
\* among them and the position the loop stopped at.
RECURSIVE readMantissa(_, _, _, _)
readMantissa(s, i, hex, m) ==
    IF i > Len(s) THEN [m EXCEPT !.i = i]
    ELSE IF s[i] = "_"
    THEN readMantissa(s, i + 1, hex, [m EXCEPT !.underscores = TRUE])
    ELSE IF s[i] = "."
    THEN IF m.sawdot THEN [m EXCEPT !.i = i]
         ELSE readMantissa(s, i + 1, hex,
                [m EXCEPT !.sawdot = TRUE, !.dp = Len(m.digits)])
    ELSE IF IsDigit(s[i])
    THEN IF s[i] = "0" /\ m.digits = <<>>
         THEN readMantissa(s, i + 1, hex,
                [m EXCEPT !.sawdigits = TRUE, !.dp = @ - 1])
         ELSE readMantissa(s, i + 1, hex,
                [m EXCEPT !.sawdigits = TRUE,
                          !.digits = Append(@, DigitVal(s[i]))])
    ELSE IF hex /\ IsHexLetter(s[i])
    THEN readMantissa(s, i + 1, hex,
            [m EXCEPT !.sawdigits = TRUE,
                      !.digits = Append(@, DigitVal(s[i]))])
    ELSE [m EXCEPT !.i = i]

\* The digits of the exponent from position i: <<e, the position after
\* them, an underscore was seen>>; e stops growing at 10000.
RECURSIVE readExponent(_, _, _, _)
readExponent(s, i, e, underscores) ==
    IF i > Len(s) \/ ~(IsDigit(s[i]) \/ s[i] = "_")
    THEN <<e, i, underscores>>
    ELSE IF s[i] = "_" THEN readExponent(s, i + 1, e, TRUE)
    ELSE readExponent(s, i + 1,
            IF e < 10000 THEN e * 10 + DigitVal(s[i]) ELSE e, underscores)

BadFloat ==
    [ok |-> FALSE, neg |-> FALSE, hex |-> FALSE, digits |-> <<>>, exp |-> 0,
     n |-> 0]

\* readFloat after the exponent e = <<value, position after, underscore
\* seen>>, which counts when marked; esign is its sign.
readChecked(s, signed, hex, m, marked, esign, e) ==
    LET n == IF marked THEN e[2] - 1 ELSE m.i - 1
        scale == IF hex THEN 4 ELSE 1
        dp == (IF m.sawdot THEN m.dp ELSE Len(m.digits)) * scale
        nd == Len(m.digits) * scale
        shift == IF marked THEN esign * e[1] ELSE 0
    IN  IF (m.underscores \/ (marked /\ e[3]))
           /\ ~underscoreOK(SubSeq(s, 1, n))
        THEN BadFloat
        ELSE [ok |-> TRUE,
              neg |-> signed /\ s[1] = "-",
              hex |-> hex,
              digits |-> m.digits,
              exp |-> IF m.digits = <<>> THEN 0 ELSE dp + shift - nd,
              n |-> n]

\* readFloat after the mantissa m.
readScaled(s, signed, hex, m) ==
    LET marked == /\ m.i <= Len(s)
                  /\ ToLowerChar(s[m.i]) = (IF hex THEN "p" ELSE "e")
        esigned == m.i + 1 <= Len(s) /\ s[m.i + 1] \in {"+", "-"}
        efrom == m.i + 1 + (IF esigned THEN 1 ELSE 0)
    IN  IF ~m.sawdigits THEN BadFloat
        ELSE IF marked /\ (efrom > Len(s) \/ ~IsDigit(s[efrom])) THEN BadFloat
        ELSE IF ~marked /\ hex THEN BadFloat
        ELSE readChecked(s, signed, hex, m, marked,
                         IF esigned /\ s[m.i + 1] = "-" THEN -1 ELSE 1,
                         readExponent(s, efrom, 0, FALSE))

\* strconv's readFloat: the sign, the digits of the mantissa, the power
\* exp of ten (of two for a hexadecimal mantissa) they are scaled by, and
\* the number n of characters read.
readFloat(s) ==
    LET signed == s # <<>> /\ s[1] \in {"+", "-"}
        start == IF signed THEN 2 ELSE 1
        hex == /\ start + 2 <= Len(s)
               /\ s[start] = "0"
               /\ ToLowerChar(s[start + 1]) = "x"
    IN  IF s = <<>> \/ start > Len(s) THEN BadFloat
        ELSE readScaled(s, signed, hex,
                readMantissa(s, IF hex THEN start + 2 ELSE start, hex,
                    [digits |-> <<>>, dp |-> 0, sawdot |-> FALSE,
                     sawdigits |-> FALSE, underscores |-> FALSE, i |-> 0]))

\* The result for the magnitude f of the number read.
parsedFloat(neg, f) ==
    [ok |-> f # F32Inf,
     err |-> IF f = F32Inf THEN "range" ELSE "",
     val |-> IF neg THEN -f ELSE f]

\* ParseFloat from what special and readFloat found.
parseFloatFrom(s, sp, r) ==
    IF sp.ok
    THEN IF sp.n = Len(s) THEN [ok |-> TRUE, err |-> "", val |-> sp.val]
         ELSE [ok |-> FALSE, err |-> "syntax", val |-> 0]
    ELSE IF ~r.ok \/ r.n # Len(s)
    THEN [ok |-> FALSE, err |-> "syntax", val |-> 0]
    ELSE parsedFloat(r.neg,
                     IF r.hex THEN HexToF32(r.digits, r.exp)
                     ELSE DecimalToF32(r.digits, r.exp))

\* strconv.ParseFloat(s, 32): the float32 nearest to the decimal or
\* hexadecimal number s.  ok is FALSE for the errors: s is not a number
\* (err is "syntax"), or it is out of the range of float32 ("range").
ParseFloat(s) == parseFloatFrom(s, special(s), readFloat(s))

\* ------------------------------------------------------------ parseRule

\* The index (1-based) of the first character of s at or after i that is
\* not a key character, or Len(s) + 1.
RECURSIVE KeyEnd(_, _)
KeyEnd(s, i) ==
    IF i > Len(s) THEN i
    ELSE IF s[i] \in Letters THEN KeyEnd(s, i + 1)
    ELSE i

OpOfChar(c) ==
    CASE c = "=" -> opEqual
      [] c = "+" -> opIncrement
      [] c = "-" -> opDecrement
      [] c = "<" -> opLess
      [] c = ">" -> opGreater
      [] OTHER -> -1

\* The error returns of parseRule.
parseError(e) == [err |-> e, fact |-> ZeroFact, expr |-> 0]

\* parseRule from the value string on: value is the default value, which
\* the range test reads in place of the parsed one.
parseValue(s, k0, i, value, pf) ==
    IF \/ ~pf.ok
       \/ value < F32OfInt(valueMin)
       \/ value > F32OfInt(valueMax)
    THEN parseError("invalid value")
    ELSE [err |-> "",
          fact |-> factOf(SubSeq(s, k0, i - 1)),
          expr |-> exprOf(OpOfChar(s[i]), pf.val)]

\* parseRule: [err, fact, expr]; err is "" on success.
parseRule(s) ==
    LET length == Len(s)
        bang == length > 0 /\ s[1] = "!"
        k0 == IF bang THEN 2 ELSE 1
        value == IF bang THEN F32OfInt(0) ELSE F32OfInt(100)
        i == KeyEnd(s, k0)
    IN  IF length = 0 THEN parseError("empty")
        ELSE IF bang /\ length = 1 THEN parseError("invalid rule")
        ELSE IF i > length
        THEN [err |-> "",
              fact |-> factOf(SubSeq(s, k0, length)),
              expr |-> exprOf(opEqual, value)]
        ELSE IF OpOfChar(s[i]) < 0 THEN parseError("invalid operator")
        ELSE parseValue(s, k0, i, value, ParseFloat(SubSeq(s, i + 1, length)))

\* ------------------------------------------------------------ State

linearCutoff == 0

\* newState: a State from the pool, empty.
newState == [hx |-> {}, vx |-> <<>>]

\* sort.Sort(s) with Less(i, j) = Fact(i) > Fact(j): descending by fact.  On
\* slices of at most 12 elements sort.Sort is an insertion sort, which is
\* what this is; it keeps the order of entries with equal facts.
\* An insertion that puts the new entry first, whatever its fact.
InsertFirst(sorted, r) == <<r>> \o sorted

RECURSIVE InsertDesc(_, _)
InsertDesc(sorted, r) ==
    IF sorted = <<>> THEN <<r>>
    ELSE IF U32Less(Fact(sorted[Len(sorted)]), Fact(r))
    THEN Append(InsertDesc(SubSeq(sorted, 1, Len(sorted) - 1), r),
                sorted[Len(sorted)])
    ELSE Append(sorted, r)

\* A sort that leaves the slice as it is.
sortNothing(vx) == vx

RECURSIVE sort(_)
sort(vx) ==
    IF vx = <<>> THEN <<>>
    ELSE InsertDesc(sort(SubSeq(vx, 1, Len(vx) - 1)), vx[Len(vx)])

\* findLinear: <<index, found>>, the index 0-based.
findLinear(vx, key) ==
    IF \E i \in DOMAIN vx : Fact(vx[i]) = key
    THEN <<(CHOOSE i \in DOMAIN vx :
                /\ Fact(vx[i]) = key
                /\ \A j \in 1..(i - 1) : Fact(vx[j]) # key) - 1, TRUE>>
    ELSE <<0, FALSE>>

\* The binary search with the test of an ascending list.
RECURSIVE SearchAscending(_, _, _, _)
SearchAscending(vx, key, i, j) ==
    IF i < j
    THEN LET h == (i + j) \div 2
         IN  IF ~U32Leq(key, Fact(vx[h + 1]))
             THEN SearchAscending(vx, key, h + 1, j)
             ELSE SearchAscending(vx, key, i, h)
    ELSE i

\* sort.Search(n, f) with f(i) = vx[i].Fact() <= key: the binary search of
\* the standard library, on [i, j).
RECURSIVE Search(_, _, _, _)
Search(vx, key, i, j) ==
    IF i < j
    THEN LET h == (i + j) \div 2
         IN  IF ~U32Leq(Fact(vx[h + 1]), key)
             THEN Search(vx, key, h + 1, j)
             ELSE Search(vx, key, i, h)
    ELSE i

\* find: <<index, found>>, the index 0-based.
find(vx, key) ==
    IF Len(vx) <= linearCutoff THEN findLinear(vx, key)
    ELSE LET x == Search(vx, key, 0, Len(vx))
         IN  IF x < Len(vx) /\ Fact(vx[x + 1]) = key
             THEN <<x, TRUE>>
             ELSE <<x, FALSE>>

\* store that overwrites without XOR-ing the old entry out of the hash.
storeKeepOld(s, k, v) ==
    LET r == ruleOf(k, v)
        f == find(s.vx, k)
    IN  IF f[2]
        THEN [hx |-> Xor(s.hx, Hash(r)),
              vx |-> [s.vx EXCEPT ![f[1] + 1] = r]]
        ELSE [hx |-> Xor(s.hx, Hash(r)),
              vx |-> sort(Append(s.vx, ruleOf(k, v)))]

\* store that appends without looking for an entry of the fact.
storeAppend(s, k, v) ==
    [hx |-> Xor(s.hx, Hash(ruleOf(k, v))),
     vx |-> sort(Append(s.vx, ruleOf(k, v)))]

\* store: overwrite the fact's entry, or append and sort; the hash is kept
\* by XOR-ing the old entry out and the new one in.
store(s, k, v) ==
    LET r == ruleOf(k, v)
        f == find(s.vx, k)
    IN  IF f[2]
        THEN [hx |-> Xor(Xor(s.hx, Hash(s.vx[f[1] + 1])), Hash(r)),
              vx |-> [s.vx EXCEPT ![f[1] + 1] = r]]
        ELSE [hx |-> Xor(s.hx, Hash(r)),
              vx |-> sort(Append(s.vx, ruleOf(k, v)))]

\* Add after parseRule.
addParsed(s, p) ==
    IF p.err # "" THEN [err |-> p.err, s |-> s]
    ELSE [err |-> "", s |-> store(s, p.fact, p.expr)]

\* Add: [err, s].
Add(s, rule) == addParsed(s, parseRule(rule))

\* A Del that removes the entry only when it carries the rule's expression.
delParsedSameValue(s, p) ==
    LET f == find(s.vx, p.fact)
    IN  IF p.err # "" THEN [err |-> p.err, s |-> s]
        ELSE IF ~f[2] \/ Expr(s.vx[f[1] + 1]) # p.expr THEN [err |-> "", s |-> s]
        ELSE LET zeroed == [s.vx EXCEPT ![f[1] + 1] = ZeroRule]
                 sorted == sort(zeroed)
             IN  [err |-> "",
                  s |-> [hx |-> Xor(s.hx, Hash(s.vx[f[1] + 1])),
                         vx |-> SubSeq(sorted, 1, Len(sorted) - 1)]]

\* Del after parseRule.
delParsed(s, p) ==
    LET f == find(s.vx, p.fact)
    IN  IF p.err # "" THEN [err |-> p.err, s |-> s]
        ELSE IF ~f[2] THEN [err |-> "", s |-> s]
        ELSE LET zeroed == [s.vx EXCEPT ![f[1] + 1] = ZeroRule]
                 sorted == sort(zeroed)
             IN  [err |-> "",
                  s |-> [hx |-> Xor(s.hx, Hash(s.vx[f[1] + 1])),
                         vx |-> SubSeq(sorted, 1, Len(sorted) - 1)]]

\* Del: [err, s].
Del(s, rule) == delParsed(s, parseRule(rule))

\* load: the fact's expression, "= 0" when the state has no entry for it.
load(s, f) ==
    LET x == find(s.vx, f)
    IN  IF x[2] THEN Expr(s.vx[x[1] + 1]) ELSE exprOf(opEqual, 0)
\* The body of StateOf's loop after Add returned: a panic with the error,
\* or the State.
stateOfNext(r) == IF r.err # "" THEN [panic |-> r.err] ELSE r.s

\* One turn of StateOf's loop, none once it has panicked.
stateOfAdd(state, rule) ==
    IF "panic" \in DOMAIN state THEN state ELSE stateOfNext(Add(state, rule))

\* StateOf: Add each rule to a new State; the State, or [panic] with the
\* error of the first rule that Add rejects.
RECURSIVE StateOf(_)
StateOf(rules) ==
    IF rules = <<>> THEN newState
    ELSE stateOfAdd(StateOf(SubSeq(rules, 1, Len(rules) - 1)),
                    rules[Len(rules)])

\* State.Swap(i, j): the entries at i and j change places; an index outside
\* the slice is a run-time panic.  [panic, s].
StateSwap(s, i, j) ==
    IF i < 0 \/ j < 0 \/ i >= Len(s.vx) \/ j >= Len(s.vx)
    THEN [panic |-> TRUE, s |-> s]
    ELSE [panic |-> FALSE,
          s |-> [s EXCEPT !.vx = [s.vx EXCEPT ![i + 1] = s.vx[j + 1],
                                              ![j + 1] = s.vx[i + 1]]]]

\* Match: the merge of the two descending entry lists, from (i, j):
\* [ok, err].
RECURSIVE MatchFrom(_, _, _, _)
MatchFrom(state, needs, i, j) ==
    IF i < Len(needs.vx) /\ j < Len(state.vx)
    THEN LET f0 == Fact(needs.vx[i + 1])
             f1 == Fact(state.vx[j + 1])
             e0 == Expr(needs.vx[i + 1])
             e1 == Expr(state.vx[j + 1])
         IN  IF f1 = f0
             THEN IF Operator(e1) # opEqual
                  THEN [ok |-> FALSE, err |-> "invalid state"]
                  ELSE IF Operator(e0) \notin {opEqual, opLess, opGreater}
                  THEN [ok |-> FALSE, err |-> "invalid operator"]
                  ELSE LET match ==
                               CASE Operator(e0) = opEqual -> Value(e1) = Value(e0)
                                 [] Operator(e0) = opLess -> Value(e1) < Value(e0)
                                 [] Operator(e0) = opGreater -> Value(e1) > Value(e0)
                       IN  IF ~match THEN [ok |-> FALSE, err |-> ""]
                           ELSE MatchFrom(state, needs, i + 1, j + 1)
             ELSE IF U32Less(f0, f1) THEN MatchFrom(state, needs, i, j + 1)
             ELSE [ok |-> FALSE, err |-> ""]
    ELSE [ok |-> i = Len(needs.vx), err |-> ""]

\* A match that reads a fact the state has no entry for as "= 0".
MatchAbsentZero(state, needs) ==
    [ok |-> \A i \in DOMAIN needs.vx :
                LET e0 == Expr(needs.vx[i])
                    x == Value(load(state, Fact(needs.vx[i])))
                IN  CASE Operator(e0) = opEqual -> x = Value(e0)
                      [] Operator(e0) = opLess -> x < Value(e0)
                      [] Operator(e0) = opGreater -> x > Value(e0)
                      [] OTHER -> FALSE,
     err |-> ""]

Match(state, needs) == MatchFrom(state, needs, 0, 0)

\* An Apply whose "+" and "-" store the sum under the effect's operator.
ApplyOneAsEffect(s, elem) ==
    LET f == Fact(elem)
        e == Expr(elem)
        x == load(s, f)
    IN  IF Operator(x) # opEqual THEN [err |-> "invalid state", s |-> s]
        ELSE CASE Operator(e) = opEqual ->
                    [err |-> "", s |-> store(s, f, e)]
               [] Operator(e) = opIncrement ->
                    [err |-> "",
                     s |-> store(s, f, exprOf(Operator(e), F32Add(Percent(x), Percent(e))))]
               [] Operator(e) = opDecrement ->
                    [err |-> "",
                     s |-> store(s, f, exprOf(Operator(e), F32Sub(Percent(x), Percent(e))))]
               [] OTHER -> [err |-> "invalid predict operator", s |-> s]

\* An Apply that does not test the operator of the state's entry.
ApplyOneUnchecked(s, elem) ==
    LET f == Fact(elem)
        e == Expr(elem)
        x == load(s, f)
    IN  CASE Operator(e) = opEqual ->
                [err |-> "", s |-> store(s, f, e)]
          [] Operator(e) = opIncrement ->
                [err |-> "",
                 s |-> store(s, f, exprOf(Operator(x), F32Add(Percent(x), Percent(e))))]
          [] Operator(e) = opDecrement ->
                [err |-> "",
                 s |-> store(s, f, exprOf(Operator(x), F32Sub(Percent(x), Percent(e))))]
          [] OTHER -> [err |-> "invalid predict operator", s |-> s]

\* One effect of Apply: [err, s].
ApplyOne(s, elem) ==
    LET f == Fact(elem)
        e == Expr(elem)
        x == load(s, f)
    IN  IF Operator(x) # opEqual THEN [err |-> "invalid state", s |-> s]
        ELSE CASE Operator(e) = opEqual ->
                    [err |-> "", s |-> store(s, f, e)]
               [] Operator(e) = opIncrement ->
                    [err |-> "",
                     s |-> store(s, f, exprOf(Operator(x), F32Add(Percent(x), Percent(e))))]
               [] Operator(e) = opDecrement ->
                    [err |-> "",
                     s |-> store(s, f, exprOf(Operator(x), F32Sub(Percent(x), Percent(e))))]
               [] OTHER -> [err |-> "invalid predict operator", s |-> s]

\* Apply: the effects in slice order from index n, stopping at the first
\* error: [err, s].
RECURSIVE ApplyFrom(_, _, _)
applyNext(r, effects, n) ==
    IF r.err # "" THEN r ELSE ApplyFrom(r.s, effects, n + 1)

ApplyFrom(s, effects, n) ==
    IF n >= Len(effects.vx) THEN [err |-> "", s |-> s]
    ELSE applyNext(ApplyOne(s, effects.vx[n + 1]), effects, n)

Apply(s, effects) == ApplyFrom(s, effects, 0)

\* A Distance that adds a difference only where the goal is above the state.
RECURSIVE DistanceFromBelow(_, _, _, _)
DistanceFromBelow(s, goal, n, diff) ==
    IF n >= Len(goal.vx) THEN diff
    ELSE LET y == Percent(Expr(goal.vx[n + 1]))
             x == Percent(load(s, Fact(goal.vx[n + 1])))
         IN  DistanceFromBelow(s, goal, n + 1,
                 IF F32Less(x, y) THEN F32Add(diff, F32Sub(y, x)) ELSE diff)

\* Distance: the loop over goal.vx from index n with diff so far; every
\* difference and every sum is a float32 operation.
RECURSIVE DistanceFrom(_, _, _, _)
DistanceFrom(s, goal, n, diff) ==
    IF n >= Len(goal.vx) THEN diff
    ELSE LET y == Percent(Expr(goal.vx[n + 1]))
             x == Percent(load(s, Fact(goal.vx[n + 1])))
         IN  DistanceFrom(s, goal, n + 1,
                 IF F32Less(y, x) THEN F32Add(diff, F32Sub(x, y))
                 ELSE IF F32Less(x, y) THEN F32Add(diff, F32Sub(y, x))
                 ELSE diff)

Distance(s, goal) == DistanceFrom(s, goal, 0, 0)

Equals(s, other) == s.hx = other.hx

\* Clone: a State from the pool with the hash and a copy of the entries.
Clone(s) == [newState EXCEPT !.hx = s.hx, !.vx = s.vx]

\* ------------------------------------------------------------ State objects

\* A State object is its hash and its slice header: mem.objs[o] is
\* [hx, arr, len], and mem.arrays[a] holds the cells of backing array a that
\* have been written.  Capacities are 16 or more, above every length of the
\* model, so append never moves a slice to another array.

\* The State the object denotes: the cells below its length.
View(m, o) ==
    [hx |-> m.objs[o].hx,
     vx |-> SubSeq(m.arrays[m.objs[o].arr], 1, m.objs[o].len)]

\* The object o after an operation that left it as s: store, sort and Del
\* write the cells of the object's own backing array; the cells past the
\* new length keep what they held, the one Del trimmed holding the zero
\* rule.
Write(m, o, s) ==
    LET a == m.objs[o].arr
        old == m.arrays[a]
        n == Len(s.vx)
        cells == [i \in 1..Max(n, Len(old)) |->
                    IF i <= n THEN s.vx[i]
                    ELSE IF i = n + 1 /\ n < m.objs[o].len THEN ZeroRule
                    ELSE old[i]]
    IN  [objs |-> [m.objs EXCEPT ![o] = [hx |-> s.hx, arr |-> a, len |-> n]],
         arrays |-> [m.arrays EXCEPT ![a] = cells]]

\* A clone whose slice is the original's: the same backing array.
CloneStateShared(m, o) ==
    [objs |-> Append(m.objs, m.objs[o]),
     arrays |-> m.arrays]

\* Clone on objects: newState gives an object with an array of its own (the
\* pool is empty: nothing was released), and copy fills it.
CloneState(m, o) ==
    [objs |-> Append(m.objs, [hx |-> Clone(View(m, o)).hx,
                              arr |-> Len(m.arrays) + 1,
                              len |-> m.objs[o].len]),
     arrays |-> Append(m.arrays, Clone(View(m, o)).vx)]

\* StateOf(): one empty State object.
OneState ==
    [objs |-> <<[hx |-> newState.hx, arr |-> 1, len |-> 0]>>,
     arrays |-> <<newState.vx>>]

\* ------------------------------------------------------------ inputs

Keys == {<<"a">>, <<"b">>, <<"c">>}

\* The rule strings that parse: key, !key, and key OP 50 for each operator.
RulesOfKey(k) ==
    {k, <<"!">> \o k,
     k \o <<"=", "5", "0">>, k \o <<"+", "5", "0">>, k \o <<"-", "5", "0">>,
     k \o <<"<", "5", "0">>, k \o <<">", "5", "0">>}

ValidRules == UNION {RulesOfKey(k) : k \in Keys}

\* More rule strings: another casing, a value over 100, a value with
\* hundredths, and strings that do not parse.
OtherRules ==
    {<<"A">>, <<"a", "=", "2", "0", "0">>, <<"a", "=", "5", "0", ".", "0", "1">>,
     <<>>, <<"!">>, <<"a", " ">>, <<"a", ">", "=", "5", "0">>,
     <<"a", "=", "2", ".", "2", ".", "2">>}

RuleStrings == ValidRules \cup OtherRules

\* The rule lists of a length up to n.
RECURSIVE RuleLists(_)
RuleLists(n) ==
    IF n = 0 THEN {<<>>}
    ELSE LET shorter == RuleLists(n - 1)
         IN  shorter \cup {Append(l, r) : l \in shorter, r \in ValidRules}

\* The States a caller builds with StateOf as patterns and effects.
ArgStates == {StateOf(l) : l \in RuleLists(MaxRules)}

\* The rule lists of a length up to n whose rules have pairwise distinct
\* facts.
RECURSIVE DistinctLists(_)
DistinctLists(n) ==
    IF n = 0 THEN {<<>>}
    ELSE LET shorter == DistinctLists(n - 1)
         IN  shorter \cup
             {Append(x[1], x[2]) :
                 x \in {y \in shorter \X ValidRules :
                           /\ Len(y[1]) = n - 1
                           /\ \A i \in DOMAIN y[1] :
                                parseRule(y[1][i]).fact # parseRule(y[2]).fact}}

StateOfLists == DistinctLists(MaxFacts)

\* Rule lists with a rule that Add rejects.
PanicLists ==
    {<<<<>>>>, <<<<"a">>, <<"h", "p", "=">>>>,
     <<<<"a">>, <<"b", ">", "=", "5", "0">>, <<"c">>>>}

\* The index pairs given to Swap.
SwapPairs == {<<0, 1>>, <<1, 0>>}

\* ------------------------------------------------------------ State machine

NoOp ==
    [op |-> "none", rule |-> <<>>, arg |-> newState, pre |-> newState,
     post |-> newState, ok |-> FALSE, err |-> "", panic |-> FALSE,
     dist |-> 0, on |-> 0, i |-> 0, j |-> 0, views |-> <<>>,
     rules |-> <<>>]

\* No State object and no backing array.
NoMem == [objs |-> <<>>, arrays |-> <<>>]

IdlePlan ==
    /\ problem = [start |-> newState, goal |-> newState, actions |-> <<>>]
    /\ nodes = <<>>
    /\ heap = <<>>
    /\ visit = {}
    /\ pc = "idle"
    /\ cur = 0
    /\ ai = 0
    /\ result = ""
    /\ plan = <<>>
    /\ err = ""
    /\ steps = 0
    /\ pool = EmptyBag
    /\ runs = <<>>

StateInit ==
    /\ st = newState
    /\ last = NoOp
    /\ mem = NoMem
    /\ swaps = 0
    /\ after = 0
    /\ IdlePlan

\* A call other than Swap: once Swap has been called, it is one of the
\* MaxAfterSwap calls that follow.
Called ==
    /\ swaps = 0 \/ after < MaxAfterSwap
    /\ after' = IF swaps = 0 THEN 0 ELSE after + 1
    /\ UNCHANGED swaps

\* Each operation is called on the State as the previous call left it; last
\* keeps the call's inputs and outputs until the caller has read them.
OpAdd ==
    /\ last.op = "none"
    /\ Called
    /\ UNCHANGED mem
    /\ UNCHANGED planVars
    /\ \E rule \in RuleStrings :
        \E r \in {Add(st, rule)} :
            /\ st' = r.s
            /\ last' = [NoOp EXCEPT !.op = "Add", !.rule = rule, !.pre = st,
                                    !.post = r.s, !.err = r.err]

OpDel ==
    /\ last.op = "none"
    /\ Called
    /\ UNCHANGED mem
    /\ UNCHANGED planVars
    /\ \E rule \in RuleStrings :
        \E r \in {Del(st, rule)} :
            /\ st' = r.s
            /\ last' = [NoOp EXCEPT !.op = "Del", !.rule = rule, !.pre = st,
                                    !.post = r.s, !.err = r.err]

OpApply ==
    /\ last.op = "none"
    /\ Called
    /\ UNCHANGED mem
    /\ UNCHANGED planVars
    /\ \E effects \in ArgStates :
        \E r \in {Apply(st, effects)} :
            /\ st' = r.s
            /\ last' = [NoOp EXCEPT !.op = "Apply", !.arg = effects, !.pre = st,
                                    !.post = r.s, !.err = r.err]

OpMatch ==
    /\ last.op = "none"
    /\ Called
    /\ UNCHANGED mem
    /\ UNCHANGED planVars
    /\ \E needs \in ArgStates :
        \E r \in {Match(st, needs)} :
            /\ st' = st
            /\ last' = [NoOp EXCEPT !.op = "Match", !.arg = needs, !.pre = st,
                                    !.post = st, !.ok = r.ok, !.err = r.err]

OpClone ==
    /\ last.op = "none"
    /\ Called
    /\ UNCHANGED mem
    /\ UNCHANGED planVars
    /\ st' = Clone(st)
    /\ last' = [NoOp EXCEPT !.op = "Clone", !.pre = st, !.post = Clone(st)]

OpStateOf ==
    /\ last.op = "none"
    /\ st = newState
    /\ UNCHANGED <<mem, swaps, after>>
    /\ UNCHANGED planVars
    /\ \E rules \in StateOfLists \cup PanicLists :
        \E r \in {StateOf(rules)} :
            IF "panic" \in DOMAIN r
            THEN /\ st' = st
                 /\ last' = [NoOp EXCEPT !.op = "StateOf", !.rules = rules,
                                         !.panic = TRUE, !.err = r.panic]
            ELSE /\ st' = r
                 /\ last' = [NoOp EXCEPT !.op = "StateOf", !.rules = rules,
                                         !.post = r]

\* The caller swaps two entries of the State, as sort.Sort does.
OpSwap ==
    /\ last.op = "none"
    /\ swaps < MaxSwaps
    /\ swaps' = swaps + 1
    /\ UNCHANGED after
    /\ UNCHANGED mem
    /\ UNCHANGED planVars
    /\ \E p \in SwapPairs :
        \E r \in {StateSwap(st, p[1], p[2])} :
            /\ st' = r.s
            /\ last' = [NoOp EXCEPT !.op = "Swap", !.i = p[1], !.j = p[2],
                                    !.pre = st, !.post = r.s,
                                    !.panic = r.panic]

OpDistance ==
    /\ last.op = "none"
    /\ Called
    /\ UNCHANGED mem
    /\ UNCHANGED planVars
    /\ \E goal \in ArgStates :
        /\ st' = st
        /\ last' = [NoOp EXCEPT !.op = "Distance", !.arg = goal, !.pre = st,
                                !.post = st, !.dist = Distance(st, goal)]

\* The caller has read the results of the call.
OpReturn ==
    /\ last.op # "none"
    /\ last' = NoOp
    /\ UNCHANGED st
    /\ UNCHANGED <<mem, swaps, after>>
    /\ UNCHANGED planVars

StateNext ==
    \/ OpAdd
    \/ OpDel
    \/ OpApply
    \/ OpMatch
    \/ OpClone
    \/ OpDistance
    \/ OpSwap
    \/ OpReturn

StateSpec == StateInit /\ [][StateNext]_vars

\* StateOf on every list of rules with distinct facts.
BuildNext ==
    \/ OpStateOf
    \/ OpReturn

BuildSpec == StateInit /\ [][BuildNext]_vars

\* ------------------------------------------------------------ wide States

\* The nine keys of TestApplySort: a State of all of them is past eight
\* entries.
WideKeys ==
    {<<"a">>, <<"b">>, <<"d">>, <<"e">>, <<"f">>, <<"g">>, <<"h">>, <<"i">>,
     <<"j">>}

\* The bare key for each of the nine, and !key for a, b and d.
WideRules == WideKeys \cup {<<"!", "a">>, <<"!", "b">>, <<"!", "d">>}

\* Effects states: one rule each, the two of TestApplySort, and one with !d.
WideEffects ==
    {StateOf(<<r>>) : r \in WideRules}
        \cup {StateOf(<<<<"D">>>>),
              StateOf(<<<<"D">>, <<"E">>, <<"F">>, <<"G">>, <<"H">>, <<"I">>,
                        <<"J">>>>),
              StateOf(<<<<"j">>, <<"!", "d">>, <<"h">>, <<"a">>>>)}

WideAdd ==
    /\ last.op = "none"
    /\ Called
    /\ UNCHANGED mem
    /\ UNCHANGED planVars
    /\ \E rule \in WideRules :
        \E r \in {Add(st, rule)} :
            /\ st' = r.s
            /\ last' = [NoOp EXCEPT !.op = "Add", !.rule = rule, !.pre = st,
                                    !.post = r.s, !.err = r.err]

WideDel ==
    /\ last.op = "none"
    /\ Called
    /\ UNCHANGED mem
    /\ UNCHANGED planVars
    /\ \E rule \in WideRules :
        \E r \in {Del(st, rule)} :
            /\ st' = r.s
            /\ last' = [NoOp EXCEPT !.op = "Del", !.rule = rule, !.pre = st,
                                    !.post = r.s, !.err = r.err]

WideApply ==
    /\ last.op = "none"
    /\ Called
    /\ UNCHANGED mem
    /\ UNCHANGED planVars
    /\ \E effects \in WideEffects :
        \E r \in {Apply(st, effects)} :
            /\ st' = r.s
            /\ last' = [NoOp EXCEPT !.op = "Apply", !.arg = effects, !.pre = st,
                                    !.post = r.s, !.err = r.err]

WideClone ==
    /\ last.op = "none"
    /\ Called
    /\ UNCHANGED mem
    /\ UNCHANGED planVars
    /\ st' = Clone(st)
    /\ last' = [NoOp EXCEPT !.op = "Clone", !.pre = st, !.post = Clone(st)]

WideNext ==
    \/ WideAdd
    \/ WideDel
    \/ WideApply
    \/ WideClone
    \/ OpSwap
    \/ OpReturn

\* The State operations on States of up to nine entries.
WideSpec == StateInit /\ [][WideNext]_vars

\* ------------------------------------------------------------ parsed rules

\* The rule strings of TestParse's kind that parse, other casings of the
\* key, a key with "_", values outside [0, 100], values that are no
\* multiple of 0.5, with an exponent and infinite, and two with no key.
ParsedRules ==
    {<<"h", "p">>, <<"!", "h", "p">>, <<"H", "P">>, <<"H", "p">>,
     <<"!", "h", "P">>, <<"a", "_">>, <<"A", "_">>,
     <<"h", "p", "=", "1", "0">>, <<"h", "p", "=", "1", "0", ".", "5">>,
     <<"h", "p", "=", "1", "0", ".">>, <<"h", "p", "=", "0">>,
     <<"h", "p", "=", "2", "0", "0">>, <<"h", "p", "=", "-", "5">>,
     <<"h", "p", "+", "1">>, <<"h", "p", "-", "1">>,
     <<"h", "p", "+", "2", "0", "0">>, <<"H", "P", "-", "1", ".", "5">>,
     <<"h", "p", "<", "1", "0">>, <<"h", "p", ">", "1", "0">>,
     <<"h", "p", ">", "2", "0", "0">>,
     <<"h", "p", "=", "2", ".", "1">>, <<"h", "p", "=", "0", ".", "5", "3">>,
     <<"h", "p", "=", "1", "e", "1">>, <<"h", "p", "=", "i", "n", "f">>,
     <<"F", "o", "o", "d">>,
     <<"=", "5">>, <<"!", "=", "5">>}

\* The rule strings of TestParse's kind that do not parse.
RejectedRules ==
    {<<>>, <<"!">>, <<"h", "p", " ">>, <<"h", "p", " ", "2">>,
     <<"h", "p", ">", "=", "1", "0">>, <<"h", "p", "<", "=", "1", "0">>,
     <<"h", "p", "=", "2", ".", "2", ".", "2">>, <<"a", "b", "c", "2">>,
     <<"h", "p", "=">>, <<"h", "p", "*", "2">>, <<"!", "h", "p", "2">>}

ParseRules == ParsedRules \cup RejectedRules

ParseAdd ==
    /\ last.op = "none"
    /\ Called
    /\ UNCHANGED mem
    /\ UNCHANGED planVars
    /\ \E rule \in ParseRules :
        \E r \in {Add(st, rule)} :
            /\ st' = r.s
            /\ last' = [NoOp EXCEPT !.op = "Add", !.rule = rule, !.pre = st,
                                    !.post = r.s, !.err = r.err]

ParseDel ==
    /\ last.op = "none"
    /\ Called
    /\ UNCHANGED mem
    /\ UNCHANGED planVars
    /\ \E rule \in ParseRules :
        \E r \in {Del(st, rule)} :
            /\ st' = r.s
            /\ last' = [NoOp EXCEPT !.op = "Del", !.rule = rule, !.pre = st,
                                    !.post = r.s, !.err = r.err]

ParseNext ==
    \/ ParseAdd
    \/ ParseDel
    \/ OpSwap
    \/ OpReturn

ParseSpec == StateInit /\ [][ParseNext]_vars

\* ------------------------------------------------------------ clone pairs

\* The rules of the operations on a State and its clone.
CloneRules == RulesOfKey(<<"a">>) \cup {<<"b">>, <<"!", "b">>}

CloneEffects == {StateOf(<<r>>) : r \in CloneRules}

\* The views of all the objects, as they are before an operation.
Views(m) == [k \in DOMAIN m.objs |-> View(m, k)]

CloneInit ==
    /\ st = newState
    /\ last = NoOp
    /\ mem = OneState
    /\ swaps = 0
    /\ after = 0
    /\ IdlePlan

\* T = S.Clone(), once.
PairClone ==
    /\ last.op = "none"
    /\ Len(mem.objs) = 1
    /\ mem' = CloneState(mem, 1)
    /\ last' = [NoOp EXCEPT !.op = "Clone", !.on = 1, !.pre = View(mem, 1),
                            !.post = View(mem, 1), !.views = Views(mem)]
    /\ Called
    /\ UNCHANGED st
    /\ UNCHANGED planVars

PairAdd ==
    /\ last.op = "none"
    /\ Called
    /\ UNCHANGED st
    /\ UNCHANGED planVars
    /\ \E o \in DOMAIN mem.objs, rule \in CloneRules :
        \E r \in {Add(View(mem, o), rule)} :
            /\ mem' = Write(mem, o, r.s)
            /\ last' = [NoOp EXCEPT !.op = "Add", !.rule = rule, !.on = o,
                                    !.pre = View(mem, o), !.post = r.s,
                                    !.err = r.err, !.views = Views(mem)]

PairDel ==
    /\ last.op = "none"
    /\ Called
    /\ UNCHANGED st
    /\ UNCHANGED planVars
    /\ \E o \in DOMAIN mem.objs, rule \in CloneRules :
        \E r \in {Del(View(mem, o), rule)} :
            /\ mem' = Write(mem, o, r.s)
            /\ last' = [NoOp EXCEPT !.op = "Del", !.rule = rule, !.on = o,
                                    !.pre = View(mem, o), !.post = r.s,
                                    !.err = r.err, !.views = Views(mem)]

PairApply ==
    /\ last.op = "none"
    /\ Called
    /\ UNCHANGED st
    /\ UNCHANGED planVars
    /\ \E o \in DOMAIN mem.objs, effects \in CloneEffects :
        \E r \in {Apply(View(mem, o), effects)} :
            /\ mem' = Write(mem, o, r.s)
            /\ last' = [NoOp EXCEPT !.op = "Apply", !.arg = effects, !.on = o,
                                    !.pre = View(mem, o), !.post = r.s,
                                    !.err = r.err, !.views = Views(mem)]

\* Swap on the State or on its clone.
PairSwap ==
    /\ last.op = "none"
    /\ swaps < MaxSwaps
    /\ swaps' = swaps + 1
    /\ UNCHANGED after
    /\ UNCHANGED st
    /\ UNCHANGED planVars
    /\ \E o \in DOMAIN mem.objs, p \in SwapPairs :
        \E r \in {StateSwap(View(mem, o), p[1], p[2])} :
            /\ mem' = Write(mem, o, r.s)
            /\ last' = [NoOp EXCEPT !.op = "Swap", !.on = o, !.i = p[1],
                                    !.j = p[2],
                                    !.pre = View(mem, o), !.post = r.s,
                                    !.panic = r.panic, !.views = Views(mem)]

CloneNext ==
    \/ PairClone
    \/ PairAdd
    \/ PairDel
    \/ PairApply
    \/ PairSwap
    \/ OpReturn

\* The State operations on a State and its clone.
CloneSpec == CloneInit /\ [][CloneNext]_vars

\* ------------------------------------------------------------ graph

\* The zero node{}: no action, no parent, zero costs, index 0, not visited.
\* Every State of a run is an entry of nodes: its entries and hash (s), the
\* embedded node, and whether release() gave it back to the pool.
ZeroNode ==
    [s |-> newState, action |-> 0, parent |-> 0, heuristic |-> 0,
     stateCost |-> 0, totalCost |-> 0, index |-> 0, visited |-> FALSE,
     released |-> FALSE]

\* A release that leaves the node fields as they are.
releaseDirty(n) == [n EXCEPT !.s = newState, !.released = TRUE]

\* A release that leaves the visited flag as it is.
releaseVisited(n) == [ZeroNode EXCEPT !.visited = n.visited, !.released = TRUE]

\* State.release: cleared and back in the pool.
release(n) == [ZeroNode EXCEPT !.released = TRUE]

\* Go's integer division, which truncates toward zero.
GoDiv(a, b) == IF a >= 0 THEN a \div b ELSE 0 - ((0 - a) \div b)

\* graph.Len.
HeapLen(h) == Len(h)

\* graph.Less(i, j) on in-range indexes.
Less(ns, h, i, j) ==
    F32Less(ns[h[i + 1]].totalCost, ns[h[j + 1]].totalCost)

\* graph.Swap(i, j): the two slots exchange their nodes; no node's index
\* field is written.
Swap(h, i, j) == [h EXCEPT ![i + 1] = h[j + 1], ![j + 1] = h[i + 1]]

\* graph.up(j): [heap, panic]; panic when Less reads outside the heap.
RECURSIVE up(_, _, _)
up(ns, h, j) ==
    LET i == GoDiv(j - 1, 2)
    IN  IF i = j THEN [heap |-> h, panic |-> FALSE]
        ELSE IF j >= Len(h) \/ i >= Len(h) THEN [heap |-> h, panic |-> TRUE]
        ELSE IF ~Less(ns, h, j, i) THEN [heap |-> h, panic |-> FALSE]
        ELSE up(ns, Swap(h, i, j), i)

\* graph.down(i0, n), from position i: [heap, i], i the final position.
RECURSIVE downFrom(_, _, _, _)
downFrom(ns, h, i, n) ==
    LET j1 == 2 * i + 1
        j2 == j1 + 1
        j == IF j2 < n /\ Less(ns, h, j2, j1) THEN j2 ELSE j1
    IN  IF j1 >= n \/ j1 < 0 THEN [heap |-> h, i |-> i]
        ELSE IF ~Less(ns, h, j, i) THEN [heap |-> h, i |-> i]
        ELSE downFrom(ns, Swap(h, i, j), j, n)

\* graph.down(i0, n): [heap, moved].
down(ns, h, i0, n) ==
    LET d == downFrom(ns, h, i0, n)
    IN  [heap |-> d.heap, moved |-> d.i > i0]

\* h.visit[hash] = id.
VisitPut(v, hash, id) == {p \in v : p[1] # hash} \cup {<<hash, id>>}

\* A Find that finds nothing.
FindNothing(v, hash) == 0

\* graph.Find: the node id under the hash, 0 when the map has none.
Find(v, hash) ==
    IF \E p \in v : p[1] = hash
    THEN (CHOOSE p \in v : p[1] = hash)[2]
    ELSE 0

\* graph.Push(v): [nodes, heap, visit, panic].
Push(ns, h, v, id) ==
    LET ns1 == [ns EXCEPT ![id].index = Len(h)]
        h1 == Append(h, id)
        u == up(ns1, h1, Len(h1) - 1)
    IN  [nodes |-> ns1, heap |-> u.heap,
         visit |-> VisitPut(v, ns1[id].s.hx, id), panic |-> u.panic]

\* A pop that does not mark the node visited.
popUnvisited(ns, h, v) ==
    LET id == h[Len(h)]
    IN  [nodes |-> ns,
         heap |-> SubSeq(h, 1, Len(h) - 1),
         visit |-> VisitPut(v, ns[id].s.hx, id),
         node |-> id]

\* graph.pop: the last slot leaves the heap, visited: [nodes, heap, visit, node].
pop(ns, h, v) ==
    LET id == h[Len(h)]
    IN  [nodes |-> [ns EXCEPT ![id].visited = TRUE],
         heap |-> SubSeq(h, 1, Len(h) - 1),
         visit |-> VisitPut(v, ns[id].s.hx, id),
         node |-> id]

\* graph.Pop on a heap that is not empty: [nodes, heap, visit, node].
Pop(ns, h, v) ==
    LET n == Len(h) - 1
        d == down(ns, Swap(h, 0, n), 0, n)
    IN  pop(ns, d.heap, v)

\* graph.Fix(v): [heap, panic].
Fix(ns, h, id) ==
    LET d == down(ns, h, ns[id].index, Len(h))
    IN  IF ~d.moved THEN up(ns, d.heap, ns[id].index)
        ELSE [heap |-> d.heap, panic |-> FALSE]

\* graph.Release: every State of the map is released.
Release(ns, v) ==
    [id \in DOMAIN ns |->
        IF \E p \in v : p[2] = id THEN release(ns[id]) ELSE ns[id]]

\* ------------------------------------------------------------ Plan

\* A reconstructPlan that appends the action of every node, nil or not.
RECURSIVE reconstructPlanNil(_, _)
reconstructPlanNil(ns, n) ==
    IF n = 0 THEN <<>>
    ELSE reconstructPlanNil(ns, ns[n].parent) \o <<ns[n].action>>

\* reconstructPlan: the actions along the parent links, start first.
RECURSIVE reconstructPlan(_, _)
reconstructPlan(ns, n) ==
    IF n = 0 THEN <<>>
    ELSE reconstructPlan(ns, ns[n].parent)
            \o (IF ns[n].action # 0 THEN <<ns[n].action>> ELSE <<>>)

\* A relax test that does not look at visited.
RelaxesVisited(node, newCost) == F32Less(newCost, node.stateCost)

\* case found && !node.visited && newCost < node.stateCost.
Relaxes(node, newCost) ==
    ~node.visited /\ F32Less(newCost, node.stateCost)

\* newCost without the cost of the path to current.
NewCostOfStep(current, action) == action.cost

\* newCost := current.stateCost + action.Cost().
NewCost(current, action) == F32Add(current.stateCost, action.cost)


\* An action with fixed require and outcome states, as the tests' actionOf
\* builds it; the cost is a float32, as the heuristic is.
actionOf(name, cost, require, outcome) ==
    [name |-> name, cost |-> cost,
     require |-> StateOf(require), outcome |-> StateOf(outcome)]

\* The actions the action lists are drawn from.
MoveAC ==
    actionOf("MoveAC", F32Ratio(500, 100),
             <<<<"a">>>>,
             <<<<"!", "a">>, <<"c">>>>)

MoveAB ==
    actionOf("MoveAB", F32Ratio(100, 100),
             <<<<"a">>>>,
             <<<<"!", "a">>, <<"b">>>>)

MoveBC ==
    actionOf("MoveBC", F32Ratio(100, 100),
             <<<<"b">>>>,
             <<<<"!", "b">>, <<"c">>>>)

AddB ==
    actionOf("AddB", F32Ratio(100, 100),
             <<<<"a">>>>,
             <<<<"b">>>>)

AddC ==
    actionOf("AddC", F32Ratio(100, 100),
             <<<<"a">>>>,
             <<<<"c">>>>)

AddBC ==
    actionOf("AddBC", F32Ratio(500, 100),
             <<<<"a">>>>,
             <<<<"b">>, <<"c">>>>)

GrowC ==
    actionOf("GrowC", F32Ratio(50, 100),
             <<<<"c", "<", "5", "0">>>>,
             <<<<"c", "+", "5", "0">>>>)

Broken ==
    actionOf("Broken", F32Ratio(100, 100),
             <<>>,
             <<<<"c", ">", "5", "0">>>>)

BadNeed ==
    actionOf("BadNeed", F32Ratio(100, 100),
             <<<<"a", "+", "5", "0">>>>,
             <<<<"b">>>>)

Catalogue ==
    <<MoveAC, MoveAB, MoveBC, AddB, AddC,
      AddBC, GrowC, Broken, BadNeed>>

\* The lists of distinct actions of the catalogue, of a length up to n.
RECURSIVE ActionLists(_)
ActionLists(n) ==
    IF n = 0 THEN {<<>>}
    ELSE LET shorter == ActionLists(n - 1)
         IN  shorter \cup
             {Append(l, Catalogue[i]) :
                 <<l, i>> \in {x \in shorter \X DOMAIN Catalogue :
                                 /\ Len(x[1]) = n - 1
                                 /\ Catalogue[x[2]] \notin Range(x[1])}}

Starts ==
    {StateOf(<<<<"a">>, <<"!", "b">>, <<"!", "c">>>>),
     StateOf(<<<<"a">>, <<"b">>>>)}

Goals ==
    {StateOf(<<<<"c">>>>),
     StateOf(<<<<"c", ">", "5", "0">>>>),
     StateOf(<<<<"a", "<", "5", "0">>>>),
     StateOf(<<<<"b", ">", "5", "0">>, <<"c", ">", "5", "0">>>>),
     StateOf(<<<<"b", "-", "5", "0">>>>),
     StateOf(<<<<"a">>>>)}

\* The calls of Plan: a start, a goal and a list of actions.
\* A call whose run relaxes a node that is not at the root of a heap of
\* three: from {a}, MakeB, MakeC and HalfB push three nodes, the pop of
\* MakeB's node moves the other two, MakeC on it pushes a third again and
\* DropB reaches HalfB's state at a lower cost.  The goal is out of reach.
FixActions ==
    <<actionOf("MakeB", F32Ratio(50, 100), <<<<"a">>>>, <<<<"b">>>>),
      actionOf("MakeC", F32Ratio(100, 100), <<<<"a">>>>, <<<<"c">>>>),
      actionOf("HalfB", F32Ratio(500, 100), <<<<"a">>>>, <<<<"b", "=", "5", "0">>>>),
      actionOf("DropB", F32Ratio(25, 100), <<<<"b">>>>, <<<<"b", "=", "5", "0">>>>)>>

\* A call whose run reaches a visited node again at a lower cost: DearC's
\* node {a, !b, c} is popped before AddB's, and MoveBC leads from AddB's
\* node to it for 2 where DearC took 5.  The goal is out of reach.
DearC ==
    actionOf("DearC", F32Ratio(500, 100),
             <<<<"a">>>>,
             <<<<"c">>>>)

CloseActions == <<DearC, AddB, MoveBC>>

\* A call with numeric outcomes, as TestNumericPlan has: ShrinkA takes 50
\* from a while a is above 0, GrowC adds 50 to c while c is below 50.
ShrinkA ==
    actionOf("ShrinkA", F32Ratio(100, 100),
             <<<<"a", ">", "0">>>>,
             <<<<"a", "-", "5", "0">>>>)

NumericActions == <<ShrinkA, GrowC>>

\* A call with costs whose float32 sum is below their sum: from {a}, BothBC
\* reaches {a, b, c} for 0.05 and OnlyB then OnlyC for 0.01 + 0.04, which as
\* a float32 is below the float32 0.05.  The goal is out of reach.
CentActions ==
    <<actionOf("BothBC", F32Ratio(5, 100), <<<<"a">>>>, <<<<"b">>, <<"c">>>>),
      actionOf("OnlyB", F32Ratio(1, 100), <<<<"a">>>>, <<<<"b">>>>),
      actionOf("OnlyC", F32Ratio(4, 100), <<<<"b">>>>, <<<<"c">>>>)>>

FixProblems ==
    {[start |-> StateOf(<<<<"a">>>>), goal |-> StateOf(<<<<"e">>>>),
      actions |-> FixActions],
     [start |-> StateOf(<<<<"a">>, <<"!", "b">>, <<"!", "c">>>>),
      goal |-> StateOf(<<<<"c">>, <<"e">>>>),
      actions |-> CloseActions],
     [start |-> StateOf(<<<<"a">>, <<"!", "b">>, <<"!", "c">>>>),
      goal |-> StateOf(<<<<"a", "<", "5", "0">>, <<"c", ">", "0">>>>),
      actions |-> NumericActions],
     [start |-> StateOf(<<<<"a">>>>), goal |-> StateOf(<<<<"e">>>>),
      actions |-> CentActions]}

Problems ==
    [start : Starts, goal : Goals, actions : ActionLists(MaxActions)]
        \cup FixProblems

\* The caller's States as objects of the run: start, goal, and the require
\* and outcome of each action, none of them on a heap or released.
StartId == 1

GoalId == 2

RequireId(k) == 2 * k + 1

OutcomeId(k) == 2 * k + 2

NumInputs(pr) == 2 + 2 * Len(pr.actions)

InputObjects(pr) ==
    [k \in 1..NumInputs(pr) |->
        [ZeroNode EXCEPT !.s =
            IF k = StartId THEN pr.start
            ELSE IF k = GoalId THEN pr.goal
            ELSE IF k % 2 = 1 THEN pr.actions[(k - 1) \div 2].require
            ELSE pr.actions[(k - 2) \div 2].outcome]]

\* Plan working on the caller's start itself.
KeepStart(ns) == [nodes |-> ns, id |-> StartId]

\* start = start.Clone(): [nodes, id], the State that start names from
\* here on.
CloneStart(ns) ==
    [nodes |-> Append(ns, [ZeroNode EXCEPT !.s = Clone(ns[StartId].s)]),
     id |-> Len(ns) + 1]

\* A match against the require state that drops the error.
matchRequireQuiet(current, require) ==
    [ok |-> Match(current, require).ok, err |-> ""]

\* match, err := current.Match(require).
matchRequire(current, require) == Match(current, require)

PlanInit ==
    /\ st = newState
    /\ last = NoOp
    /\ mem = NoMem
    /\ swaps = 0
    /\ after = 0
    /\ IdlePlan

\* A caller calls Plan(start, goal, actions).
PlanCall ==
    /\ pc = "idle"
    /\ \E pr \in Problems :
        /\ problem' = pr
        /\ nodes' = InputObjects(pr)
    /\ pc' = "start"
    /\ UNCHANGED <<heap, visit, cur, ai, result, plan, err, steps>>
    /\ UNCHANGED stateVars
    /\ UNCHANGED poolVars

\* Plan, to the loop: clone start, set its node, acquire a heap, push.
PlanStart ==
    /\ pc = "start"
    /\ \E c \in {CloneStart(nodes)} :
        \E start \in {[ZeroNode EXCEPT
                        !.s = c.nodes[c.id].s,
                        !.heuristic = Distance(c.nodes[c.id].s,
                                               c.nodes[GoalId].s),
                        !.stateCost = 0]} :
        \E p \in {Push([c.nodes EXCEPT ![c.id] = start], <<>>, {}, c.id)} :
            /\ nodes' = p.nodes
            /\ heap' = p.heap
            /\ visit' = p.visit
    /\ pc' = "loop"
    /\ UNCHANGED <<problem, cur, ai, result, plan, err>>
    /\ steps' = steps + 1
    /\ UNCHANGED stateVars
    /\ UNCHANGED poolVars

\* One turn of the loop to the actions: pop current, match it to the goal.
PlanPop ==
    /\ pc = "loop"
    /\ HeapLen(heap) > 0
    /\ \E p \in {Pop(nodes, heap, visit)} :
        \E m \in {Match(p.nodes[p.node].s, p.nodes[GoalId].s)} :
           /\ nodes' = p.nodes
           /\ heap' = p.heap
           /\ visit' = p.visit
           /\ cur' = p.node
           /\ IF m.err # ""
              THEN /\ result' = "error"
                   /\ plan' = <<>>
                   /\ err' = m.err
                   /\ pc' = "return"
              ELSE IF m.ok
              THEN /\ result' = "plan"
                   /\ plan' = reconstructPlan(p.nodes, p.node)
                   /\ err' = ""
                   /\ pc' = "return"
              ELSE /\ pc' = IF Len(problem.actions) = 0 THEN "loop" ELSE "expand"
                   /\ UNCHANGED <<result, plan, err>>
    /\ ai' = 0
    /\ UNCHANGED problem
    /\ steps' = steps + 1
    /\ UNCHANGED stateVars
    /\ UNCHANGED poolVars

\* The body of the loop over the actions, for action ai of current.
PlanExpand ==
    /\ pc = "expand"
    /\ \E m \in {matchRequire(nodes[cur].s, nodes[RequireId(ai + 1)].s)},
          a \in {Apply(Clone(nodes[cur].s), nodes[OutcomeId(ai + 1)].s)},
          newCost \in {NewCost(nodes[cur], problem.actions[ai + 1])} :
       LET goal == nodes[GoalId].s
           id == Len(nodes) + 1
           next == IF ai + 1 < Len(problem.actions) THEN "expand" ELSE "loop"
       IN  IF m.err # ""
           THEN /\ result' = "error"
                /\ err' = m.err
                /\ pc' = "return"
                /\ UNCHANGED <<nodes, heap, visit>>
           ELSE IF ~m.ok
           THEN /\ pc' = next
                /\ UNCHANGED <<nodes, heap, visit, result, err>>
           ELSE IF a.err # ""
           THEN /\ nodes' = Append(nodes, [ZeroNode EXCEPT !.s = a.s])
                /\ result' = "error"
                /\ err' = a.err
                /\ pc' = "return"
                /\ UNCHANGED <<heap, visit>>
           ELSE \E found \in {Find(visit, a.s.hx)} :
                IF found = 0
                THEN \E heuristic \in {Distance(a.s, goal)} :
                     \E pushed \in {[ZeroNode EXCEPT
                                        !.s = a.s,
                                        !.parent = cur,
                                        !.action = ai + 1,
                                        !.heuristic = heuristic,
                                        !.stateCost = newCost,
                                        !.totalCost = F32Add(newCost, heuristic)]} :
                     \E p \in {Push(Append(nodes, pushed), heap, visit, id)} :
                        /\ nodes' = p.nodes
                        /\ heap' = p.heap
                        /\ visit' = p.visit
                        /\ pc' = next
                        /\ UNCHANGED <<result, err>>
                ELSE IF Relaxes(nodes[found], newCost)
                THEN \E relaxed \in {[nodes EXCEPT
                                        ![found].parent = cur,
                                        ![found].stateCost = newCost,
                                        ![found].totalCost =
                                            F32Add(newCost, nodes[found].heuristic)]} :
                     \E f \in {Fix(relaxed, heap, found)} :
                        /\ heap' = f.heap
                        /\ visit' = visit
                        /\ IF f.panic
                           THEN /\ nodes' = Append(relaxed, [ZeroNode EXCEPT !.s = a.s])
                                /\ result' = "panic"
                                /\ pc' = "return"
                                /\ UNCHANGED err
                           ELSE /\ nodes' = Append(relaxed, release([ZeroNode EXCEPT !.s = a.s]))
                                /\ pc' = next
                                /\ UNCHANGED <<result, err>>
                ELSE /\ nodes' = Append(nodes, release([ZeroNode EXCEPT !.s = a.s]))
                     /\ pc' = next
                     /\ UNCHANGED <<heap, visit, result, err>>
    /\ ai' = ai + 1
    /\ UNCHANGED <<problem, cur, plan>>
    /\ steps' = steps + 1
    /\ UNCHANGED stateVars
    /\ UNCHANGED poolVars

\* The loop ends on an empty heap: the no-plan error.
PlanFinish ==
    /\ pc = "loop"
    /\ HeapLen(heap) = 0
    /\ result' = "noplan"
    /\ err' = "no plan could be found to reach the goal"
    /\ pc' = "return"
    /\ UNCHANGED <<problem, nodes, heap, visit, cur, ai, plan>>
    /\ steps' = steps + 1
    /\ UNCHANGED stateVars
    /\ UNCHANGED poolVars

\* The deferred heap.Release(), run when Plan returns or panics.
PlanRelease ==
    /\ pc = "return"
    /\ nodes' = Release(nodes, visit)
    /\ pc' = "done"
    /\ UNCHANGED <<problem, heap, visit, cur, ai, result, plan, err>>
    /\ steps' = steps + 1
    /\ UNCHANGED stateVars
    /\ UNCHANGED poolVars

PlanNext ==
    \/ PlanCall
    \/ PlanStart
    \/ PlanPop
    \/ PlanExpand
    \/ PlanFinish
    \/ PlanRelease

PlanSpec == PlanInit /\ [][PlanNext]_vars


\* ------------------------------------------------------------ pooled States

\* The calls of Plan, each from a goroutine of its own that starts at any
\* time: while the others run, or after they have returned.
MaxCalls == 2

Runs == 1..MaxCalls

\* Two ways to b = 100: RaiseB twice, or DearB at once.
RaiseB ==
    actionOf("RaiseB", F32Ratio(100, 100),
             <<<<"a">>>>,
             <<<<"b", "+", "5", "0">>>>)

DearB ==
    actionOf("DearB", F32Ratio(500, 100),
             <<<<"a">>>>,
             <<<<"b">>>>)

\* The calls the goroutines make, all on the same start, goal and actions: a
\* plan after a relax, a plan whose relax changes a parent, a panic in Fix,
\* an error of Apply and a search that ends without a plan.
PoolProblems ==
    {[start |-> StateOf(<<<<"a">>, <<"b">>>>),
      goal |-> StateOf(<<<<"c">>>>),
      actions |-> <<AddBC, AddC>>],
     [start |-> StateOf(<<<<"a">>, <<"!", "b">>, <<"!", "c">>>>),
      goal |-> StateOf(<<<<"c", ">", "5", "0">>>>),
      actions |-> <<MoveBC, MoveAC, MoveAB>>],
     [start |-> StateOf(<<<<"a">>>>),
      goal |-> StateOf(<<<<"a", "<", "5", "0">>>>),
      actions |-> <<RaiseB, DearB>>],
     [start |-> StateOf(<<<<"a">>, <<"b">>>>),
      goal |-> StateOf(<<<<"c">>>>),
      actions |-> <<Broken>>],
     [start |-> StateOf(<<<<"a">>, <<"b">>>>),
      goal |-> StateOf(<<<<"a", "<", "5", "0">>>>),
      actions |-> <<AddC>>]}

\* The States pool.Get can return: any State in the pool, or the one New
\* makes.
Gets(ns, pl) == BagToSet(pl) \cup {Len(ns) + 1}

\* A Get that leaves the State it returns in the pool.
GetAndKeep(ns, pl, id) ==
    IF id \in DOMAIN ns
    THEN [nodes |-> [ns EXCEPT ![id].released = FALSE], pool |-> pl]
    ELSE [nodes |-> Append(ns, ZeroNode), pool |-> pl]

\* pool.Get() returning the State id: [nodes, pool].  A State from the pool
\* comes as release left it; New makes an empty one.
Get(ns, pl, id) ==
    IF id \in DOMAIN ns
    THEN [nodes |-> [ns EXCEPT ![id].released = FALSE],
          pool |-> pl (-) SetToBag({id})]
    ELSE [nodes |-> Append(ns, ZeroNode), pool |-> pl]

\* A Put that puts the State into the pool twice.
PutTwice(pl, id) == (pl (+) SetToBag({id})) (+) SetToBag({id})

\* pool.Put(s).
Put(pl, id) == pl (+) SetToBag({id})
\* A call that has not started; fresh is newState, the clone in hand
\* between its Clone and its Push or release.  held and had are not of the
\* program: the States the call got from the pool and has not released,
\* and those it has released.
NewRun ==
    [pc |-> "start", heap |-> <<>>, visit |-> {}, cur |-> 0, ai |-> 0,
     fresh |-> 0, freed |-> {}, result |-> "", plan |-> <<>>, err |-> "",
     held |-> {}, had |-> {}]

PoolInit ==
    /\ st = newState
    /\ last = NoOp
    /\ mem = NoMem
    /\ swaps = 0
    /\ after = 0
    /\ heap = <<>>
    /\ visit = {}
    /\ pc = "idle"
    /\ cur = 0
    /\ ai = 0
    /\ result = ""
    /\ plan = <<>>
    /\ err = ""
    /\ steps = 0
    /\ pool = EmptyBag
    /\ runs = [r \in Runs |-> NewRun]
    /\ \E pr \in PoolProblems :
        /\ problem = pr
        /\ nodes = InputObjects(pr)

PoolFrame == UNCHANGED <<st, last, mem, swaps, after, problem, heap, visit, pc, cur, ai,
                         result, plan, err, steps>>

\* Plan, to the loop, in goroutine r: clone start into a State of the pool,
\* set its node, acquire a heap, push.
RunStart(r) ==
    /\ runs[r].pc = "start"
    /\ \E id \in Gets(nodes, pool) :
        \E g \in {Get(nodes, pool, id)} :
        \E start \in {[ZeroNode EXCEPT
                        !.s = Clone(nodes[StartId].s),
                        !.heuristic = Distance(Clone(nodes[StartId].s),
                                               nodes[GoalId].s),
                        !.stateCost = 0]} :
        \E p \in {Push([g.nodes EXCEPT ![id] = start], <<>>, {}, id)} :
            /\ nodes' = p.nodes
            /\ pool' = g.pool
            /\ runs' = [runs EXCEPT ![r] =
                         [NewRun EXCEPT !.pc = "loop",
                                        !.heap = p.heap,
                                        !.visit = p.visit,
                                        !.held = {id}]]
    /\ PoolFrame

\* One turn of the loop to the actions, in goroutine r.
RunPop(r) ==
    /\ runs[r].pc = "loop"
    /\ HeapLen(runs[r].heap) > 0
    /\ \E p \in {Pop(nodes, runs[r].heap, runs[r].visit)} :
        \E m \in {Match(p.nodes[p.node].s, p.nodes[GoalId].s)} :
           /\ nodes' = p.nodes
           /\ runs' = [runs EXCEPT ![r] =
                [@ EXCEPT
                   !.heap = p.heap,
                   !.visit = p.visit,
                   !.cur = p.node,
                   !.ai = 0,
                   !.result = IF m.err # "" THEN "error"
                              ELSE IF m.ok THEN "plan" ELSE @,
                   !.plan = IF m.err = "" /\ m.ok
                            THEN reconstructPlan(p.nodes, p.node) ELSE @,
                   !.err = IF m.err # "" THEN m.err ELSE @,
                   !.pc = IF m.err # "" \/ m.ok THEN "return"
                          ELSE IF Len(problem.actions) = 0 THEN "loop"
                          ELSE "expand"]]
    /\ UNCHANGED pool
    /\ PoolFrame

\* The loop over the actions in goroutine r, for action ai of current, to
\* newState := current.Clone(): the match against require and, when it
\* holds, the pool.Get of the clone.
RunExpand(r) ==
    /\ runs[r].pc = "expand"
    /\ \E R \in {runs[r]} :
       \E m \in {matchRequire(nodes[R.cur].s, nodes[RequireId(R.ai + 1)].s)},
          next \in {IF R.ai + 1 < Len(problem.actions)
                    THEN "expand" ELSE "loop"} :
       IF m.err # ""
       THEN /\ runs' = [runs EXCEPT ![r] =
                         [R EXCEPT !.result = "error", !.err = m.err,
                                   !.pc = "return", !.ai = R.ai + 1]]
            /\ UNCHANGED <<nodes, pool>>
       ELSE IF ~m.ok
       THEN /\ runs' = [runs EXCEPT ![r] =
                         [R EXCEPT !.pc = next, !.ai = R.ai + 1]]
            /\ UNCHANGED <<nodes, pool>>
       ELSE \E id \in Gets(nodes, pool) :
            \E g \in {Get(nodes, pool, id)} :
                /\ nodes' = [g.nodes EXCEPT ![id].s = Clone(nodes[R.cur].s)]
                /\ pool' = g.pool
                /\ runs' = [runs EXCEPT ![r] =
                             [R EXCEPT !.pc = "apply", !.fresh = id,
                                       !.held = @ \cup {id}]]
    /\ PoolFrame

\* From newState.Apply(outcome) to the end of the switch, in goroutine r:
\* the new State is pushed, or it is to be released.
RunApply(r) ==
    /\ runs[r].pc = "apply"
    /\ \E R \in {runs[r]} :
       \E id \in {R.fresh},
          a \in {Apply(nodes[R.fresh].s, nodes[OutcomeId(R.ai + 1)].s)},
          newCost \in {NewCost(nodes[R.cur], problem.actions[R.ai + 1])},
          next \in {IF R.ai + 1 < Len(problem.actions)
                    THEN "expand" ELSE "loop"} :
       \E ns \in {[nodes EXCEPT ![id].s = a.s]} :
       IF a.err # ""
       THEN /\ nodes' = ns
            /\ runs' = [runs EXCEPT ![r] =
                         [R EXCEPT !.result = "error", !.err = a.err,
                                   !.pc = "return", !.ai = R.ai + 1,
                                   !.fresh = 0]]
       ELSE \E found \in {Find(R.visit, a.s.hx)} :
            IF found = 0
            THEN \E heuristic \in {Distance(a.s, nodes[GoalId].s)} :
                 \E p \in {Push([ns EXCEPT
                                   ![id].parent = R.cur,
                                   ![id].action = R.ai + 1,
                                   ![id].heuristic = heuristic,
                                   ![id].stateCost = newCost,
                                   ![id].totalCost = F32Add(newCost, heuristic)],
                                R.heap, R.visit, id)} :
                    /\ nodes' = p.nodes
                    /\ runs' = [runs EXCEPT ![r] =
                                 [R EXCEPT !.heap = p.heap,
                                           !.visit = p.visit,
                                           !.pc = next,
                                           !.ai = R.ai + 1,
                                           !.fresh = 0]]
            ELSE IF Relaxes(ns[found], newCost)
            THEN \E relaxed \in {[ns EXCEPT
                                    ![found].parent = R.cur,
                                    ![found].stateCost = newCost,
                                    ![found].totalCost =
                                        F32Add(newCost, ns[found].heuristic)]} :
                 \E f \in {Fix(relaxed, R.heap, found)} :
                    /\ nodes' = relaxed
                    /\ runs' = [runs EXCEPT ![r] =
                                 IF f.panic
                                 THEN [R EXCEPT !.heap = f.heap,
                                                !.result = "panic",
                                                !.pc = "return",
                                                !.ai = R.ai + 1,
                                                !.fresh = 0]
                                 ELSE [R EXCEPT !.heap = f.heap,
                                                !.pc = "release"]]
            ELSE /\ nodes' = ns
                 /\ runs' = [runs EXCEPT ![r] = [R EXCEPT !.pc = "release"]]
    /\ UNCHANGED pool
    /\ PoolFrame

\* newState.release() in goroutine r: the State is cleared and Put.
RunPut(r) ==
    /\ runs[r].pc = "release"
    /\ \E R \in {runs[r]} :
        /\ nodes' = [nodes EXCEPT ![R.fresh] = release(nodes[R.fresh])]
        /\ pool' = Put(pool, R.fresh)
        /\ runs' = [runs EXCEPT ![r] =
                     [R EXCEPT !.pc = IF R.ai + 1 < Len(problem.actions)
                                      THEN "expand" ELSE "loop",
                               !.ai = R.ai + 1,
                               !.fresh = 0,
                               !.held = @ \ {R.fresh},
                               !.had = @ \cup {R.fresh}]]
    /\ PoolFrame

\* The loop of goroutine r ends on an empty heap: the no-plan error.
RunFinish(r) ==
    /\ runs[r].pc = "loop"
    /\ HeapLen(runs[r].heap) = 0
    /\ runs' = [runs EXCEPT ![r] =
                 [@ EXCEPT !.result = "noplan",
                           !.err = "no plan could be found to reach the goal",
                           !.pc = "return"]]
    /\ UNCHANGED <<nodes, pool>>
    /\ PoolFrame

\* One turn of the loop of graph.Release in goroutine r: a State of the map
\* not yet released, in the order the map's iteration gives, is released.
RunRelease(r) ==
    /\ runs[r].pc = "return"
    /\ \E R \in {runs[r]} :
       \E id \in {p[2] : p \in R.visit} \ R.freed :
        /\ nodes' = [nodes EXCEPT ![id] = release(nodes[id])]
        /\ pool' = Put(pool, id)
        /\ runs' = [runs EXCEPT ![r] =
                     [R EXCEPT !.pc = IF {p[2] : p \in R.visit}
                                            \subseteq R.freed \cup {id}
                                      THEN "done" ELSE "return",
                               !.freed = @ \cup {id},
                               !.held = @ \ {id},
                               !.had = @ \cup {id}]]
    /\ PoolFrame

PoolNext ==
    \E r \in Runs :
        \/ RunStart(r)
        \/ RunPop(r)
        \/ RunExpand(r)
        \/ RunApply(r)
        \/ RunPut(r)
        \/ RunFinish(r)
        \/ RunRelease(r)

PoolSpec == PoolInit /\ [][PoolNext]_vars

\* ------------------------------------------------------------ State claims

\* The state's entries all carry "=".
AllEqual(s) == \A i \in DOMAIN s.vx : Operator(Expr(s.vx[i])) = opEqual

\* The state has an entry for the fact.
Has(s, f) == \E i \in DOMAIN s.vx : Fact(s.vx[i]) = f

\* The state's entry for a fact it has.
EntryOf(s, f) == CHOOSE r \in Range(s.vx) : Fact(r) = f

\* The state's value for the fact, in hundredths: 0 when it has no entry.
ValueIn(s, f) == IF Has(s, f) THEN Value(Expr(EntryOf(s, f))) ELSE 0

\* The pattern expression e holds of the value x.
Holds(x, e) ==
    CASE Operator(e) = opEqual -> x = Value(e)
      [] Operator(e) = opLess -> x < Value(e)
      [] Operator(e) = opGreater -> x > Value(e)
      [] OTHER -> FALSE

\* Every entry of the state carries one of the operators.
OpsWithin(s, ops) == \A i \in DOMAIN s.vx : Operator(Expr(s.vx[i])) \in ops

\* The XOR of the entry hashes of a list of entries.
RECURSIVE XorAll(_)
XorAll(vx) ==
    IF vx = <<>> THEN {}
    ELSE Xor(XorAll(SubSeq(vx, 1, Len(vx) - 1)), Hash(vx[Len(vx)]))

\* The entries are in strictly descending fact order.
Descending(vx) ==
    \A i \in 1..(Len(vx) - 1) : U32Less(Fact(vx[i + 1]), Fact(vx[i]))

\* No two entries have the same fact.
UniqueFacts(vx) ==
    \A i, j \in DOMAIN vx : Fact(vx[i]) = Fact(vx[j]) => i = j

\* C5: a Match against a one-entry pattern ("=", "<" or ">") whose fact the
\* state (all "=") has no entry for gives what the pattern gives on the value
\* 0: true for !k, k=0 and k<v, false for k>v and k=v with v > 0.
C5_AbsentFactIsZero ==
    (/\ last.op = "Match"
     /\ AllEqual(last.pre)
     /\ Len(last.arg.vx) = 1
     /\ OpsWithin(last.arg, {opEqual, opLess, opGreater})
     /\ ~Has(last.pre, Fact(last.arg.vx[1])))
    => (/\ last.err = ""
        /\ last.ok = Holds(0, Expr(last.arg.vx[1])))

\* C6: for a state of "=" entries and a pattern of "=", "<", ">" entries,
\* Match returns (true, no error) exactly when every pattern entry holds of
\* the state's value for its fact (0 when the state has no entry).
C6_MatchIffEveryEntryHolds ==
    (/\ last.op = "Match"
     /\ AllEqual(last.pre)
     /\ OpsWithin(last.arg, {opEqual, opLess, opGreater}))
    => (/\ last.err = ""
        /\ last.ok = (\A i \in DOMAIN last.arg.vx :
                        Holds(ValueIn(last.pre, Fact(last.arg.vx[i])),
                              Expr(last.arg.vx[i]))))

\* C7: on a state of "=" entries, Apply of effects carrying "=", "+", "-"
\* succeeds and leaves, for every effect (f, e), the entry (f, "=" v) with v
\* e's value for "=", min(x + e, 100) for "+" and max(x - e, 0) for "-", x
\* being the state's value of f before the call (0 if it had none).
C7_ApplySetsClampedValues ==
    (/\ last.op = "Apply"
     /\ AllEqual(last.pre)
     /\ OpsWithin(last.arg, {opEqual, opIncrement, opDecrement}))
    => (/\ last.err = ""
        /\ \A i \in DOMAIN last.arg.vx :
            LET f == Fact(last.arg.vx[i])
                e == Expr(last.arg.vx[i])
                x == ValueIn(last.pre, f)
                v == CASE Operator(e) = opEqual -> Value(e)
                       [] Operator(e) = opIncrement -> Min(x + Value(e), 10000)
                       [] Operator(e) = opDecrement -> Max(x - Value(e), 0)
            IN  /\ Has(last.post, f)
                /\ Operator(Expr(EntryOf(last.post, f))) = opEqual
                /\ Value(Expr(EntryOf(last.post, f))) = v)

\* C8: a Match whose first pattern entry carries "+" or "-", or has a fact
\* the state holds with an operator other than "=", returns an error.
C8_MatchErrors ==
    (/\ last.op = "Match"
     /\ Len(last.arg.vx) > 0
     /\ \/ Operator(Expr(last.arg.vx[1])) \in {opIncrement, opDecrement}
        \/ /\ Has(last.pre, Fact(last.arg.vx[1]))
           /\ Operator(Expr(EntryOf(last.pre, Fact(last.arg.vx[1])))) # opEqual)
    => last.err # ""

\* C9: on a State built by StateOf, Add, Del, Apply and Clone calls (and no
\* Swap), an Apply returns an error when the state holds the fact of one of
\* the effects with an operator other than "=", or when an effect carries
\* "<" or ">".
C9_ApplyErrors ==
    (/\ swaps = 0
     /\ last.op = "Apply"
     /\ \E i \in DOMAIN last.arg.vx :
         \/ Operator(Expr(last.arg.vx[i])) \in {opLess, opGreater}
         \/ /\ Has(last.pre, Fact(last.arg.vx[i]))
            /\ Operator(Expr(EntryOf(last.pre, Fact(last.arg.vx[i])))) # opEqual)
    => last.err # ""

\* C9 witness: an Apply of two effects returned an error: the first effect
\* carries "=" on a fact the State holds with another operator, or one of
\* the effects carries "<" or ">".
C9_Witness ==
    /\ swaps = 0
    /\ last.op = "Apply"
    /\ last.err # ""
    /\ Len(last.arg.vx) = 2
    /\ \/ /\ AllEqual(last.arg)
          /\ Has(last.pre, Fact(last.arg.vx[1]))
          /\ Operator(Expr(EntryOf(last.pre, Fact(last.arg.vx[1])))) # opEqual
       \/ /\ AllEqual(last.pre)
          /\ \E i \in DOMAIN last.arg.vx :
                Operator(Expr(last.arg.vx[i])) \in {opLess, opGreater}

\* C10: the cached hash is the XOR of the entry hashes of the entries the
\* state holds, after every sequence of Add, Del, Apply and Clone calls (and
\* no other); an Add that overwrites a fact's entry changes the hash by the
\* old entry's hash XOR the new one's.
C10_HashIsXorOfEntries ==
    (swaps = 0) =>
        /\ st.hx = XorAll(st.vx)
        /\ (/\ last.op = "Add"
            /\ last.err = ""
            /\ Has(last.pre, parseRule(last.rule).fact))
           => LET f == parseRule(last.rule).fact
              IN  last.post.hx =
                    Xor(Xor(last.pre.hx, Hash(EntryOf(last.pre, f))),
                        Hash(EntryOf(last.post, f)))

\* C10 witness: an Add overwrote an entry with another value in a state of
\* two entries, and the hash changed.
C10_Witness ==
    /\ swaps = 0
    /\ last.op = "Add"
    /\ last.err = ""
    /\ Len(last.pre.vx) = 2
    /\ Len(last.post.vx) = 2
    /\ last.post.hx # last.pre.hx
    /\ st = last.post

\* The facts of the state's entries.
FactsOf(s) == {Fact(s.vx[i]) : i \in DOMAIN s.vx}

\* The state's percentage for the fact, a float32: 0 when it has no entry.
PercentIn(s, f) ==
    IF Has(s, f) THEN Percent(Expr(EntryOf(s, f))) ELSE F32OfInt(0)

\* |x - y| of two percentages, a float32.
Gap(x, y) == IF x > y THEN F32Sub(x, y) ELSE F32Sub(y, x)

\* The float32 sum over the facts F of the gap between the state's and the
\* goal's percentage.
RECURSIVE GapSum(_, _, _)
GapSum(s, goal, F) ==
    IF F = {} THEN F32OfInt(0)
    ELSE LET f == CHOOSE x \in F : TRUE
         IN  F32Add(GapSum(s, goal, F \ {f}),
                    Gap(PercentIn(s, f), PercentIn(goal, f)))

\* The state was built from bare keys: every entry is "= 100".
BareKeys(s) ==
    \A i \in DOMAIN s.vx :
        Operator(Expr(s.vx[i])) = opEqual /\ Value(Expr(s.vx[i])) = valueMax

\* C13: on a State built by StateOf, Add, Del, Apply and Clone calls (and
\* no Swap), Distance is the sum, over the goal's entries only, of the gap
\* between the state's percentage for the fact (0 when absent) and the
\* goal's; facts only the state holds add nothing.
C13_DistanceSumsOverGoal ==
    (swaps = 0 /\ last.op = "Distance")
    => last.dist = GapSum(last.pre, last.arg, FactsOf(last.arg))

\* C13 witness: a Distance to a goal of two entries, one of a fact the State
\* holds at a higher percentage and one of a fact the State lacks, from a
\* State that holds a fact the goal lacks: both goal entries add to the sum.
C13_Witness ==
    /\ swaps = 0
    /\ last.op = "Distance"
    /\ Len(last.arg.vx) = 2
    /\ \E f \in FactsOf(last.arg) :
            Has(last.pre, f) /\ PercentIn(last.pre, f) > PercentIn(last.arg, f)
    /\ \E f \in FactsOf(last.arg) :
            ~Has(last.pre, f) /\ PercentIn(last.arg, f) > 0
    /\ \E f \in FactsOf(last.pre) : ~Has(last.arg, f)
    /\ last.dist = GapSum(last.pre, last.arg, FactsOf(last.arg))
    /\ last.dist > 0

\* C14: between states built from bare keys, Distance is 100 for each fact
\* held by exactly one of the state and the goal, in both directions.
C14_DistanceCountsBothWays ==
    (last.op = "Distance" /\ BareKeys(last.pre) /\ BareKeys(last.arg))
    => last.dist =
        F32OfInt(100 * Cardinality(Xor(FactsOf(last.pre), FactsOf(last.arg))))

\* C15: after T = S.Clone(), an Add, Del or Apply on one of S and T leaves
\* the entries and the hash of the other as they were before the call.
C15_CloneIsolated ==
    (last.op \in {"Add", "Del", "Apply"} /\ Len(mem.objs) = 2)
    => \A k \in DOMAIN mem.objs \ {last.on} : View(mem, k) = last.views[k]

\* C15 witness: after the clone an operation overwrote an entry of S in
\* place, and T has the entry S had.
C15_Witness ==
    /\ Len(mem.objs) = 2
    /\ last.op \in {"Add", "Apply"}
    /\ last.on = 1
    /\ Len(last.post.vx) = Len(last.pre.vx)
    /\ last.post # last.pre
    /\ View(mem, 1) = last.post
    /\ View(mem, 2) = last.pre

\* The orderings of a list of distinct rules.
Orderings(l) == {q \in [DOMAIN l -> Range(l)] : Range(q) = Range(l)}

\* C16: StateOf on the same rules with pairwise distinct facts, in any
\* order, gives the same entry sequence and the same hash, and the States
\* are Equal.
C16_StateOfOrderIndependent ==
    (last.op = "StateOf" /\ ~last.panic)
    => \A q \in Orderings(last.rules) :
            /\ StateOf(q).vx = last.post.vx
            /\ StateOf(q).hx = last.post.hx
            /\ Equals(StateOf(q), last.post)

\* C16 witness: StateOf built a State of three entries from rules given in
\* ascending fact order, the reverse of the order of its entries.
C16_Witness ==
    /\ last.op = "StateOf"
    /\ ~last.panic
    /\ Len(last.rules) = 3
    /\ Len(st.vx) = 3
    /\ \A i \in 1..3 : Fact(st.vx[i]) = parseRule(last.rules[4 - i]).fact
    /\ st = last.post

\* C17: if S.Match(T) and T.Match(S) both return true without error, S and
\* T have the same hash.
C17_MatchBothWaysSameHash ==
    (/\ last.op = "Match"
     /\ last.ok /\ last.err = ""
     /\ Match(last.arg, last.pre) = [ok |-> TRUE, err |-> ""])
    => last.pre.hx = last.arg.hx

\* C17 witness: two States of two entries, one of them not at 100, match
\* each other.
C17_Witness ==
    /\ last.op = "Match"
    /\ last.ok /\ last.err = ""
    /\ Match(last.arg, last.pre) = [ok |-> TRUE, err |-> ""]
    /\ Len(last.pre.vx) = 2
    /\ ~BareKeys(last.pre)

\* C18: for a State of "=" entries built by StateOf, Add, Del, Apply and
\* Clone calls (and no Swap) and effects of "=" entries, after Apply
\* succeeds the State matches the effects.
C18_AppliedEffectsMatch ==
    (/\ swaps = 0
     /\ last.op = "Apply"
     /\ AllEqual(last.pre) /\ AllEqual(last.arg)
     /\ last.err = "")
    => Match(last.post, last.arg) = [ok |-> TRUE, err |-> ""]

\* C18 witness: an Apply of two "=" effects on a State of "=" entries
\* replaced the entry of one fact by another value and added an entry for a
\* fact the State lacked, and the State matches the effects.
C18_Witness ==
    /\ swaps = 0
    /\ last.op = "Apply"
    /\ AllEqual(last.pre) /\ AllEqual(last.arg)
    /\ last.err = ""
    /\ Len(last.arg.vx) = 2
    /\ \E i \in DOMAIN last.arg.vx :
            /\ Has(last.pre, Fact(last.arg.vx[i]))
            /\ EntryOf(last.pre, Fact(last.arg.vx[i])) # last.arg.vx[i]
    /\ \E i \in DOMAIN last.arg.vx : ~Has(last.pre, Fact(last.arg.vx[i]))
    /\ Match(last.post, last.arg) = [ok |-> TRUE, err |-> ""]
    /\ st = last.post

\* C11: after any sequence of Add, Del, Apply and Clone calls (and no
\* other) the State has at most one entry per fact, and an Add of a fact
\* the State has replaces the entry: the number of entries stays and the
\* new entry is the rule's.
C11_OneEntryPerFact ==
    (swaps = 0) =>
        /\ UniqueFacts(st.vx)
        /\ (last.op = "Add" /\ last.err = ""
                /\ Has(last.pre, parseRule(last.rule).fact))
            => /\ Len(last.post.vx) = Len(last.pre.vx)
               /\ EntryOf(last.post, parseRule(last.rule).fact)
                    = ruleOf(parseRule(last.rule).fact,
                             parseRule(last.rule).expr)

\* C11 witness: an Add replaced an entry of a State of nine entries.
C11_Witness ==
    /\ swaps = 0
    /\ last.op = "Add"
    /\ Len(last.pre.vx) > 8
    /\ Has(last.pre, parseRule(last.rule).fact)
    /\ last.post # last.pre
    /\ Len(last.post.vx) = Len(last.pre.vx)

\* C12: after any sequence of Add, Del and Apply calls (and no other but
\* Clone) the entries are in strictly descending fact order, for States of
\* any number of entries.
C12_EntriesDescending == (swaps = 0) => Descending(st.vx)

\* C12 witness: a Del and an Apply left States of more than eight and of
\* fewer entries in order, the Apply having added several facts.
C12_Witness ==
    \/ /\ swaps = 0
       /\ last.op = "Apply"
       /\ Len(last.post.vx) > 8
       /\ Len(last.post.vx) > Len(last.pre.vx) + 1
       /\ Descending(last.post.vx)
       /\ st = last.post
    \/ /\ swaps = 0
       /\ last.op = "Del"
       /\ Len(last.pre.vx) > 8
       /\ Len(last.post.vx) = 8
       /\ Descending(last.post.vx)
       /\ st = last.post

\* The entries without the one of the fact, in their order.
Without(vx, f) == SelectSeq(vx, LAMBDA r : Fact(r) # f)

\* C23: on a State built by StateOf, Add, Del, Apply and Clone calls (and
\* no Swap), a Del that parses leaves the entries other than the fact's in
\* their order and takes the fact's entry, whatever its value and the value
\* in the rule string, out of the entries and out of the hash; on a state
\* without an entry for the fact it changes nothing; and a Del of the rule
\* an Add has just put into a state without the fact gives back the state
\* before the Add, entries and hash.
C23_DelUndoesAdd ==
    (swaps = 0) =>
        /\ (last.op = "Del" /\ last.err = "") =>
            LET f == parseRule(last.rule).fact
            IN  /\ last.post.vx = Without(last.pre.vx, f)
                /\ last.post.hx =
                    IF Has(last.pre, f)
                    THEN Xor(last.pre.hx, Hash(EntryOf(last.pre, f)))
                    ELSE last.pre.hx
                /\ ~Has(last.pre, f) => last.post = last.pre
                /\ st = last.post
        /\ (/\ last.op = "Add"
            /\ last.err = ""
            /\ ~Has(last.pre, parseRule(last.rule).fact)) =>
            Del(last.post, last.rule) = [err |-> "", s |-> last.pre]

\* C23 witness: a Del took the middle entry out of a State of three entries,
\* the entry carrying another expression than the rule string of the Del.
C23_Witness ==
    /\ swaps = 0
    /\ last.op = "Del"
    /\ last.err = ""
    /\ Len(last.pre.vx) = 3
    /\ Fact(last.pre.vx[2]) = parseRule(last.rule).fact
    /\ Expr(last.pre.vx[2]) # parseRule(last.rule).expr
    /\ last.post.vx = <<last.pre.vx[1], last.pre.vx[3]>>
    /\ st = last.post

\* The characters that stand for an operator in a rule string.
OpChars == {"=", "+", "-", "<", ">"}

\* The key part of a rule string: what stands between an initial "!" and
\* the first operator character.
KeyPart(s) ==
    LET from == IF Len(s) > 0 /\ s[1] = "!" THEN 2 ELSE 1
        stops == {i \in from..Len(s) : s[i] \in OpChars}
        to == IF stops = {} THEN Len(s)
              ELSE (CHOOSE i \in stops : \A j \in stops : i <= j) - 1
    IN  SubSeq(s, from, to)

\* The key part is empty or has a character that is not a key character.
BadKey(s) ==
    \/ KeyPart(s) = <<>>
    \/ \E i \in DOMAIN KeyPart(s) : KeyPart(s)[i] \notin Letters

\* The rule strings the claim lists: "", "!", "hp ", "hp 2", "hp>=10",
\* "hp<=10", "hp=2.2.2", "abc2" and "=5".
ListedRejects ==
    {<<>>, <<"!">>, <<"h", "p", " ">>, <<"h", "p", " ", "2">>,
     <<"h", "p", ">", "=", "1", "0">>, <<"h", "p", "<", "=", "1", "0">>,
     <<"h", "p", "=", "2", ".", "2", ".", "2">>, <<"a", "b", "c", "2">>,
     <<"=", "5">>}

\* C24: an Add or a Del of a rule string whose key part is empty or has a
\* character outside [a-zA-Z_], or of one of the strings "", "!", "hp ",
\* "hp 2", "hp>=10", "hp<=10", "hp=2.2.2", "abc2" and "=5", returns an
\* error and leaves the state as it was.
C24_BadKeysRejected ==
    (/\ last.op \in {"Add", "Del"}
     /\ (BadKey(last.rule) \/ last.rule \in ListedRejects)) =>
        /\ last.err # ""
        /\ last.post = last.pre
        /\ st = last.pre

\* What a rule string with a key of key characters stands for, read off its
\* form: [fact, op, value], the value the float32 of the number, within
\* [0, 100].
Meaning(s) ==
    LET bang == s[1] = "!"
        stop == (IF bang THEN 1 ELSE 0) + Len(KeyPart(s)) + 1
        number == ParseFloat(SubSeq(s, stop + 1, Len(s))).val
    IN  [fact |-> xxh3(ToLower(KeyPart(s))),
         op |-> IF stop > Len(s) THEN opEqual ELSE OpOfChar(s[stop]),
         value |-> IF stop > Len(s)
                   THEN (IF bang THEN F32OfInt(0) ELSE F32OfInt(100))
                   ELSE Max(F32OfInt(0), Min(F32OfInt(100), number))]

\* The rule string is "key", "!key" or "key OP value" with a key of key
\* characters and a decimal value.
WellFormedRule(s) ==
    /\ ~BadKey(s)
    /\ LET bang == s[1] = "!"
           stop == (IF bang THEN 1 ELSE 0) + Len(KeyPart(s)) + 1
       IN  \/ stop > Len(s)
           \/ ~bang /\ ParseFloat(SubSeq(s, stop + 1, Len(s))).ok

\* C25: "key" parses to (fact(key), "=" 100), "!key" to (fact(key), "=" 0)
\* and "key OP value" to that operator with the value clamped into
\* [0, 100], the fact being the one of the key in lower case; an Add of the
\* string stores that entry.
C25_ParsedAsWritten ==
    (last.op = "Add" /\ WellFormedRule(last.rule)) =>
        LET m == Meaning(last.rule)
            p == parseRule(last.rule)
        IN  /\ last.err = ""
            /\ p.err = ""
            /\ p.fact = m.fact
            /\ Operator(p.expr) = m.op
            /\ Percent(p.expr) = m.value
            /\ Has(last.post, m.fact)
            /\ EntryOf(last.post, m.fact) = ruleOf(m.fact, p.expr)

\* ------------------------------------------------------------ Plan claims

\* start has only "=" entries, the goal and the require states carry "=",
\* "<", ">" and the outcome states "=", "+", "-".
WellFormed(pr) ==
    /\ AllEqual(pr.start)
    /\ OpsWithin(pr.goal, {opEqual, opLess, opGreater})
    /\ \A i \in DOMAIN pr.actions :
        /\ OpsWithin(pr.actions[i].require, {opEqual, opLess, opGreater})
        /\ OpsWithin(pr.actions[i].outcome, {opEqual, opIncrement, opDecrement})

\* The action's require state is matched by s.
Applicable(s, action) ==
    LET m == Match(s, action.require)
    IN  m.ok /\ m.err = ""

\* The state the action's outcome leads to from s.
Step(s, action) == Apply(Clone(s), action.outcome).s

\* The least cost of reaching each state reachable by applicable actions,
\* as a function on the reachable states: the least fixpoint from D.
RECURSIVE MinCosts(_, _)
MinCosts(D, actions) ==
    LET moves == {x \in (DOMAIN D) \X (DOMAIN actions) :
                    Applicable(x[1], actions[x[2]])}
        cand == {<<Step(x[1], actions[x[2]]),
                   F32Add(D[x[1]], actions[x[2]].cost)>> : x \in moves}
        dom == (DOMAIN D) \cup {c[1] : c \in cand}
        costs(s) == {c[2] : c \in {k \in cand : k[1] = s}}
                        \cup (IF s \in DOMAIN D THEN {D[s]} ELSE {})
        D2 == [s \in dom |->
                CHOOSE m \in costs(s) : \A o \in costs(s) : m <= o]
    IN  IF D2 = D THEN D ELSE MinCosts(D2, actions)

MinCostsOf(pr) ==
    MinCosts([s \in {Clone(pr.start)} |-> F32OfInt(0)], pr.actions)

\* The reachable states that match the goal.
GoalStates(pr) ==
    {s \in DOMAIN MinCostsOf(pr) :
        LET m == Match(s, pr.goal) IN m.ok /\ m.err = ""}

\* The plan, taken from position k in state s, is applicable step by step
\* and ends in a state that matches the goal.
RECURSIVE Replays(_, _, _, _)
Replays(pr, acts, k, s) ==
    IF k > Len(acts)
    THEN LET m == Match(s, pr.goal) IN m.ok /\ m.err = ""
    ELSE LET action == pr.actions[acts[k]]
             r == Apply(Clone(s), action.outcome)
         IN  /\ Applicable(s, action)
             /\ r.err = ""
             /\ Replays(pr, acts, k + 1, r.s)

\* The float32 sum of the costs of the plan's actions, first to last.
RECURSIVE PlanCost(_, _)
PlanCost(pr, acts) ==
    IF acts = <<>> THEN F32OfInt(0)
    ELSE F32Add(PlanCost(pr, SubSeq(acts, 1, Len(acts) - 1)),
                pr.actions[acts[Len(acts)]].cost)

\* C1: a plan returned without error replays validly: from start, each of
\* its actions' require states is matched by the state reached so far, and
\* the state after the last outcome matches the goal.
C1_PlanReplays ==
    (result = "plan" /\ AllEqual(problem.start))
    => Replays(problem, plan, 1, Clone(problem.start))

\* C2: Plan returns the no-plan error exactly when no state matching the
\* goal is reachable, and a plan whenever one is.
C2_NoPlanIffUnreachable ==
    (pc = "return" /\ WellFormed(problem))
    => /\ (result = "noplan") <=> (GoalStates(problem) = {})
       /\ (GoalStates(problem) # {}) => (result = "plan")

\* C3: the cost of a returned plan is minimal: no sequence of actions that
\* is applicable step by step from start and ends in a state matching the
\* goal costs less.
C3_PlanCostIsMinimal ==
    (pc = "return" /\ result = "plan" /\ WellFormed(problem))
    => \A s \in GoalStates(problem) :
            PlanCost(problem, plan) <= MinCostsOf(problem)[s]

\* C3, as the code has it: the cost recorded for the goal node of a returned
\* plan is never below the least cost of reaching that node's state by
\* applicable actions; it can be above the least cost of reaching the goal.
C3_RecordedCostNotBelowMinimal ==
    (pc = "return" /\ result = "plan" /\ WellFormed(problem))
    => /\ nodes[cur].s \in GoalStates(problem)
       /\ nodes[cur].stateCost >= MinCostsOf(problem)[nodes[cur].s]

\* C3 witness: Plan returned a plan that replays validly and costs what the
\* goal node recorded, and a cheaper sequence of applicable actions reaches
\* the goal.
C3_Witness ==
    /\ pc = "return"
    /\ result = "plan"
    /\ WellFormed(problem)
    /\ Replays(problem, plan, 1, Clone(problem.start))
    /\ PlanCost(problem, plan) = nodes[cur].stateCost
    /\ \E s \in GoalStates(problem) :
        nodes[cur].stateCost > MinCostsOf(problem)[s]

\* The steps a run of Plan can take: the start, a pop of each reachable
\* state, each action on each, the end of the loop and the release.
StepBound(pr) ==
    Cardinality(DOMAIN MinCostsOf(pr)) * (Len(pr.actions) + 1) + 3

\* Every run of Plan ends within the bound on its steps: the loop cannot run
\* forever.
PlanEnds == (pc # "idle") => (steps <= StepBound(problem))

\* C4: every call of Plan ends, and ends with a goal-matching node popped,
\* an error returned or the frontier empty: the run stays within the bound
\* on its steps and leaves the loop only with one of the three.
C4_PlanEndsWithResult ==
    (pc # "idle")
    => /\ steps <= StepBound(problem)
       /\ (pc \in {"return", "done"})
            => (result \in {"plan", "noplan", "error"})

\* C19: Plan never modifies its inputs: during the run and after it (with a
\* plan, an error or a panic) start, goal and the require and outcome
\* states of the actions have the entries, the hash and the planner
\* metadata they had at the call, and none of them is released.
C19_InputsUntouched ==
    (pc # "idle")
    => /\ Len(nodes) >= NumInputs(problem)
       /\ \A k \in 1..NumInputs(problem) :
            nodes[k] = InputObjects(problem)[k]

\* C19 witness: Plan returned a plan of two actions or more and released
\* the States it had acquired, the clone of start among them.
C19_Witness ==
    /\ pc = "done"
    /\ result = "plan"
    /\ Len(plan) >= 2
    /\ Len(nodes) > NumInputs(problem) + 2
    /\ nodes[NumInputs(problem) + 1].released

\* The error of the call that failed for the node current at action index
\* k (0-based; the match against the goal comes first), "" when none did.
ErrorAt(ns, pr, current, k) ==
    LET g == Match(ns[current].s, pr.goal)
        m == Match(ns[current].s, pr.actions[k + 1].require)
        a == Apply(Clone(ns[current].s), pr.actions[k + 1].outcome)
    IN  IF g.err # "" THEN g.err
        ELSE IF k + 1 > Len(pr.actions) THEN ""
        ELSE IF m.err # "" THEN m.err
        ELSE IF m.ok THEN a.err
        ELSE ""

\* C20: an error of Match (against the goal or a require state) or of Apply
\* ends the run at once with that error and no plan: while the search goes
\* on, no call made for the current node has failed, and a run that ended
\* in error returns the error of the call that failed.
C20_ErrorsEndTheRun ==
    /\ (pc \in {"loop", "expand"} /\ cur # 0)
        => /\ Match(nodes[cur].s, problem.goal).err = ""
           /\ \A k \in 0..(ai - 1) : ErrorAt(nodes, problem, cur, k) = ""
    /\ (pc = "return" /\ result = "error")
        => /\ plan = <<>>
           /\ err # ""
           /\ err = ErrorAt(nodes, problem, cur, Max(ai - 1, 0))
    /\ (pc = "done" /\ result = "error") => (plan = <<>> /\ err # "")

\* C20 witness: after expanding some actions of a node without error, a
\* Match against a require state failed and Plan returned its error.
C20_Witness ==
    /\ pc = "return"
    /\ result = "error"
    /\ ai >= 2
    /\ err = "invalid operator"
    /\ Len(nodes) > NumInputs(problem) + 1

\* The State that start names after the clone: the first one Plan takes from
\* the pool.
StartNode == NumInputs(problem) + 1

\* The ids of the States of the run's graph: the frontier and the visited.
GraphNodes == {p[2] : p \in visit}

\* The run is in its loop: the heap and the nodes are as the last heap
\* operation left them.
InLoop == pc \in {"loop", "expand"}

\* C26: every node of the graph other than start has a parent and an action,
\* the action is applicable in the parent's state and leads from it to the
\* node's state, and the node's stateCost is the parent's plus the action's
\* cost; the relax step keeps that so by setting parent, action and costs.
C26_ActionLeadsFromParent ==
    (pc \in {"loop", "expand", "return"}) =>
        \A id \in GraphNodes \ {StartNode} :
            LET n == nodes[id]
            IN  /\ n.parent \in GraphNodes
                /\ n.action \in DOMAIN problem.actions
                /\ Applicable(nodes[n.parent].s, problem.actions[n.action])
                /\ Step(nodes[n.parent].s, problem.actions[n.action]) = n.s
                /\ n.stateCost = F32Add(nodes[n.parent].stateCost,
                                        problem.actions[n.action].cost)

\* C27: after every Push, Pop and Fix each node of the heap has its
\* position in the heap in its index field.
C27_IndexIsPosition ==
    InLoop => \A i \in DOMAIN heap : nodes[heap[i]].index = i - 1

\* The heap order: no node's totalCost is below its heap parent's.
HeapOrdered(ns, h) ==
    \A i \in 2..Len(h) : ns[h[i \div 2]].totalCost <= ns[h[i]].totalCost

\* C28: after every Push, Pop and Fix, the Fix of a relax step included,
\* the heap order holds.
C28_HeapOrdered == InLoop => HeapOrdered(nodes, heap)

\* Pop has just returned current.
JustPopped == cur # 0 /\ ai = 0 /\ pc \in {"loop", "expand", "return"}

\* C29: the node a Pop returns has the least totalCost of the nodes that
\* were in the heap: none of those left in it has a lower one.
C29_PopIsMinimal ==
    JustPopped =>
        \A i \in DOMAIN heap :
            nodes[cur].totalCost <= nodes[heap[i]].totalCost

\* C30: every node of the frontier, start included, has totalCost =
\* stateCost + heuristic with heuristic = Distance(its state, goal); start
\* is pushed with stateCost 0 and totalCost = heuristic.
C30_TotalIsCostPlusHeuristic ==
    InLoop =>
        \A i \in DOMAIN heap :
            LET n == nodes[heap[i]]
            IN  /\ n.heuristic = Distance(n.s, nodes[GoalId].s)
                /\ n.totalCost = F32Add(n.stateCost, n.heuristic)
                /\ heap[i] = StartNode => n.stateCost = F32OfInt(0)

\* The call is between its first Get and the end of its deferred Release.
Live(r) == runs[r].pc \in {"loop", "expand", "apply", "release", "return"}

\* The States the call still reads or writes: in the loop those of its heap
\* and its map, current, the clone in hand and their parents; in Release the
\* States of the map it has not yet released.
Refs(r) ==
    IF runs[r].pc = "return"
    THEN {p[2] : p \in runs[r].visit} \ runs[r].freed
    ELSE LET direct == Range(runs[r].heap) \cup {p[2] : p \in runs[r].visit}
                         \cup ({runs[r].cur, runs[r].fresh} \ {0})
         IN  direct \cup ({nodes[id].parent : id \in direct} \ {0})

\* C21: with calls of Plan running concurrently, a State one call got from
\* the pool is in no other call's hands and not in the pool until the call
\* releases it, the pool never holds a State twice, and the States a call
\* reads and writes (those of its heap and map, current, the parents) are
\* States it got and has not released.
C21_PooledStatesExclusive ==
    /\ \A r1, r2 \in Runs :
        r1 # r2 => runs[r1].held \cap runs[r2].held = {}
    /\ \A r \in Runs : runs[r].held \cap BagToSet(pool) = {}
    /\ \A id \in BagToSet(pool) : CopiesIn(id, pool) = 1 /\ nodes[id].released
    /\ \A r \in Runs :
        Live(r) => /\ Refs(r) \subseteq runs[r].held
                   /\ \A id \in Refs(r) : ~nodes[id].released

\* Two calls are running, and one holds, in its heap, a State the other has
\* released.
C21_Witness ==
    \E r1, r2 \in Runs :
        /\ r1 # r2
        /\ Live(r1)
        /\ Live(r2)
        /\ runs[r1].had \cap Range(runs[r2].heap) # {}

\* What the call returned: the actions, the error, or the panic.
Returned(r) ==
    [result |-> runs[r].result, plan |-> runs[r].plan, err |-> runs[r].err]

\* C22: two calls of Plan on the same start, goal and actions return the
\* same actions or the same error, whatever States the pool hands out and
\* however the calls are interleaved or follow each other.
C22_SameArgumentsSameReturn ==
    \A r1, r2 \in Runs :
        (runs[r1].pc = "done" /\ runs[r2].pc = "done")
            => Returned(r1) = Returned(r2)

\* Two calls have returned a plan of two actions, one of them having worked on
\* States the other had released.
C22_Witness ==
    \E r1, r2 \in Runs :
        /\ r1 # r2
        /\ runs[r1].pc = "done"
        /\ runs[r2].pc = "done"
        /\ runs[r1].result = "plan"
        /\ Len(runs[r1].plan) = 2
        /\ Cardinality(runs[r1].had \cap runs[r2].had) >= 2

\* C31: in a step of the run, a node of the graph that has been popped
\* keeps its parent, action, stateCost and totalCost and stays visited, also
\* when the step released a successor that hashes to it and came at a lower
\* cost; the stateCost of a node that has not been popped does not grow.
C31_VisitedNodesFrozen ==
    [][(pc \in {"loop", "expand"} /\ pc' \in {"loop", "expand", "return"}) =>
        \A id \in GraphNodes :
            /\ nodes[id].visited =>
                /\ nodes'[id].visited
                /\ nodes'[id].parent = nodes[id].parent
                /\ nodes'[id].action = nodes[id].action
                /\ nodes'[id].stateCost = nodes[id].stateCost
                /\ nodes'[id].totalCost = nodes[id].totalCost
            /\ ~nodes[id].visited =>
                nodes'[id].stateCost <= nodes[id].stateCost]_vars

\* The last action expanded gave a successor that hashes to a visited node
\* whose stateCost is above the successor's path cost, and the successor was
\* released.
C31_Witness ==
    /\ pc \in {"loop", "expand"}
    /\ ai >= 1
    /\ cur # 0
    /\ Applicable(nodes[cur].s, problem.actions[ai])
    /\ LET found == Find(visit, Step(nodes[cur].s, problem.actions[ai]).hx)
       IN  /\ found # 0
           /\ nodes[found].visited
           /\ NewCost(nodes[cur], problem.actions[ai]) < nodes[found].stateCost
    /\ nodes[Len(nodes)].released

\* The States the run has pushed: those in the heap and those popped.
Pushed ==
    {id \in DOMAIN nodes :
        /\ id > NumInputs(problem)
        /\ ~nodes[id].released
        /\ (id \in Range(heap) \/ nodes[id].visited)}

\* C32: during a run no two pushed nodes have the same hash and no node is
\* in the heap twice; every pushed node is in the map under its hash, where
\* Find returns it, before and after its pop; and a node of the map is in
\* the heap exactly while it is not visited, so that it is popped once.
C32_OnePushOnePopPerHash ==
    (pc \in {"loop", "expand", "return"}) =>
        /\ \A i, j \in DOMAIN heap : heap[i] = heap[j] => i = j
        /\ \A x, y \in Pushed : nodes[x].s.hx = nodes[y].s.hx => x = y
        /\ Pushed = GraphNodes
        /\ \A id \in Pushed : Find(visit, nodes[id].s.hx) = id
        /\ \A id \in GraphNodes :
            (id \in Range(heap)) <=> ~nodes[id].visited

\* Two nodes besides start have been popped and two are in the heap; the
\* successor expanded last hashed to a popped node, which Find returned.
C32_Witness ==
    /\ pc \in {"loop", "expand"}
    /\ Len(heap) >= 2
    /\ Cardinality({id \in GraphNodes : nodes[id].visited}) >= 3
    /\ ai >= 1
    /\ Applicable(nodes[cur].s, problem.actions[ai])
    /\ LET found == Find(visit, Step(nodes[cur].s, problem.actions[ai]).hx)
       IN  found # 0 /\ found # cur /\ nodes[found].visited

\* The States the run got from the pool: the clone of start and the clones
\* of current.
Acquired == {id \in DOMAIN nodes : id > NumInputs(problem)}

\* C33: when Plan has returned with a plan, with the no-plan error or with
\* an error of Match or Apply, every State it got from the pool has been
\* released.
C33_AllReleasedOnReturn ==
    (pc = "done" /\ result \in {"plan", "noplan", "error"}) =>
        \A id \in Acquired : nodes[id].released

\* C34: no State is in the pool twice, which a second release would make
\* it, during a run and after it; and a State a call has released, as a
\* duplicate successor or at its end, and that is in the pool is not in the
\* call's heap, not in its map and no parent of a node of them.
C34_ReleasedOnceAndUnreferenced ==
    /\ \A id \in BagToSet(pool) : CopiesIn(id, pool) <= 1
    /\ \A r \in Runs :
        Live(r) => Refs(r) \cap BagToSet(pool) = {}
    /\ \A r \in Runs :
        \A id \in runs[r].had :
            \/ id \in BagToSet(pool)
            \/ \E q \in Runs : id \in runs[q].held

\* A call that is running has released a duplicate successor, which is in
\* the pool, and has a node in its heap.
C34_Witness ==
    \E r \in Runs :
        /\ runs[r].pc \in {"loop", "expand", "apply"}
        /\ runs[r].had \cap BagToSet(pool) # {}
        /\ Len(runs[r].heap) >= 1

\* The node fields of the State are the zero values.
CleanNode(n) == [n EXCEPT !.s = newState, !.released = FALSE] = ZeroNode

\* C35: a State in the pool has no entries, hash 0 and zero node fields,
\* whatever call held it before; so a State a call got as a clone and has
\* in its heap is not visited, and a clone the call has not yet pushed or
\* released has zero node fields, whatever the node it was cloned from and
\* the node it was before carried.
C35_PooledStatesAreClean ==
    /\ \A id \in BagToSet(pool) :
        /\ nodes[id].s = newState
        /\ nodes[id].s.hx = newState.hx
        /\ Len(nodes[id].s.vx) = 0
        /\ CleanNode(nodes[id])
    /\ \A r \in Runs : Live(r) =>
        /\ \A id \in Range(runs[r].heap) \ runs[r].freed : ~nodes[id].visited
        /\ \A id \in runs[r].held :
             id \notin Range(runs[r].heap) \cup {p[2] : p \in runs[r].visit}
                => CleanNode(nodes[id])

\* A call has in its heap, with a parent, a State that a call that has
\* returned released.
C35_Witness ==
    \E r1, r2 \in Runs :
        /\ runs[r1].pc = "done"
        /\ runs[r2].pc \in {"loop", "expand"}
        /\ \E id \in runs[r1].had \cap Range(runs[r2].heap) :
             nodes[id].parent # 0

\* The node k parent links up from the node, 0 past the node with no parent.
RECURSIVE Ancestor(_, _)
Ancestor(id, k) ==
    IF id = 0 \/ k = 0 THEN id ELSE Ancestor(nodes[id].parent, k - 1)

\* C36: while Plan runs, the start node has no parent and no action and is
\* the only node of the graph with no parent or with no action; the parent
\* of every other node is a visited node of the graph; and from every node
\* the parent links lead to the start node in fewer steps than the graph
\* has nodes.
C36_ParentsLeadToStart ==
    (pc \in {"loop", "expand", "return"}) =>
        /\ StartNode \in GraphNodes
        /\ nodes[StartNode].parent = 0
        /\ nodes[StartNode].action = 0
        /\ \A id \in GraphNodes \ {StartNode} :
            /\ nodes[id].parent # 0
            /\ nodes[id].action # 0
            /\ nodes[id].parent \in GraphNodes
            /\ nodes[nodes[id].parent].visited
        /\ \A id \in GraphNodes :
            \E k \in 0 .. Cardinality(GraphNodes) - 1 :
                Ancestor(id, k) = StartNode

\* A node of the graph three parent links from the start node.
C36_Witness ==
    /\ pc \in {"loop", "expand"}
    /\ \E id \in GraphNodes :
        /\ Ancestor(id, 2) # StartNode
        /\ Ancestor(id, 3) = StartNode
        /\ Ancestor(id, 1) # 0

\* The start of the call matches its goal.
StartMeetsGoal ==
    LET m == Match(problem.start, problem.goal)
    IN  m.err = "" /\ m.ok

\* C37: when start matches goal, whatever the actions, Plan never comes to
\* the loop over the actions or clones a successor, and it returns the
\* empty plan with no error, after the pop of the start node.
C37_MetGoalEmptyPlan ==
    (pc # "idle" /\ StartMeetsGoal) =>
        /\ pc # "expand"
        /\ ai = 0
        /\ Len(nodes) <= NumInputs(problem) + 1
        /\ result \in {"", "plan"}
        /\ (pc \in {"return", "done"}) =>
              /\ result = "plan"
              /\ plan = <<>>
              /\ err = ""
              /\ cur = StartNode
              /\ steps <= 3

\* Plan has returned from a call whose start matches the goal and whose
\* three actions all have a require that start matches.
C37_Witness ==
    /\ pc = "done"
    /\ StartMeetsGoal
    /\ Len(problem.actions) = MaxActions
    /\ \A k \in 1 .. Len(problem.actions) :
        Applicable(problem.start, problem.actions[k])

\* start has only "=" entries and the outcome states carry "=", "+", "-".
EqualStartPlainOutcomes(pr) ==
    /\ AllEqual(pr.start)
    /\ \A i \in DOMAIN pr.actions :
        OpsWithin(pr.actions[i].outcome, {opEqual, opIncrement, opDecrement})

\* C38: when start has only "=" entries and every outcome has only "=",
\* "+" and "-" entries, every State the run has cloned and not released,
\* those of the heap and the map among them, has only "=" entries, and no
\* Match or Apply of the run fails with the invalid state error.
C38_StatesStayEqual ==
    (pc # "idle" /\ EqualStartPlainOutcomes(problem)) =>
        /\ \A id \in Acquired : AllEqual(nodes[id].s)
        /\ \A id \in Range(heap) \cup GraphNodes : AllEqual(nodes[id].s)
        /\ err # "invalid state"

\* The run has popped a node that a "-" outcome led to and a node that a
\* "+" outcome led to.
C38_Witness ==
    /\ pc \in {"loop", "expand"}
    /\ EqualStartPlainOutcomes(problem)
    /\ \E id \in GraphNodes :
        /\ nodes[id].visited
        /\ nodes[id].action # 0
        /\ ~OpsWithin(problem.actions[nodes[id].action].outcome,
                      {opEqual, opIncrement})
    /\ \E id \in GraphNodes :
        /\ nodes[id].visited
        /\ nodes[id].action # 0
        /\ ~OpsWithin(problem.actions[nodes[id].action].outcome,
                      {opEqual, opDecrement})

\* C39: when the relax step is about to call Fix(node), the node is in the
\* heap and its index is below the heap's length; and no run of Plan ends
\* in the panic of an index out of range.
C39_FixWithinHeap ==
    /\ result # "panic"
    /\ (/\ pc = "expand"
        /\ Applicable(nodes[cur].s, problem.actions[ai + 1])
        /\ Apply(Clone(nodes[cur].s), problem.actions[ai + 1].outcome).err = "")
        => LET found == Find(visit, Step(nodes[cur].s, problem.actions[ai + 1]).hx)
               newCost == NewCost(nodes[cur], problem.actions[ai + 1])
           IN  (found # 0 /\ Relaxes(nodes[found], newCost)) =>
                   /\ found \in Range(heap)
                   /\ nodes[found].index >= 0
                   /\ nodes[found].index < Len(heap)

====
